---- MODULE Spec2Model ----
(***************************************************************************)
(* Work-stealing job scheduler of the warcry runtime.                      *)
(*                                                                         *)
(* The repository holds several iterations of the scheduler; each is       *)
(* modelled from its own source:                                           *)
(*   - the three Chase-Lev deques (system/deque.c ring deque, the          *)
(*     wc_deque of the thread pool, the WorkStealingQueue of the handle    *)
(*     job system), step by step at the level of shared-memory accesses;   *)
(*   - the task system (task.c) on the work-stealing pool (thread_pool.c); *)
(*   - the fiber job system (job.c, fiber.c);                              *)
(*   - the handle job pool (job system with generation-tagged handles).    *)
(***************************************************************************)
EXTENDS Integers, Sequences, FiniteSets, TLC

\* ------------------------------------------------------------------------
\* Bounds of the model
\* ------------------------------------------------------------------------
\* Ring capacity of every deque. The sources use 256 (QUEUE_MASK + 1),
\* 64..256 (wc_deque_create) and 256 (JOB_QUEUE_SIZE); the model scales the
\* capacity down so that full and wrapped rings are reached.
QueueCap == 2
\* Number of thieves running steal concurrently with the owner.
NumThieves == 2
\* Number of jobs the owner pushes.
MaxPush == 3
\* Number of pop calls of the owner, and steal calls of each thief.
MaxPop == 3
MaxSteal == 2

\* Worker threads besides the main thread (wc_pool_create(worker_count)).
NumWorkers == 2
\* Tasks the client program creates.
NumTasks == 3
\* Idle rounds of the worker loop each worker thread is followed for.
MaxSpins == 1
LateSpins == 2
\* Depth of task executions nested through wc_task_wait that is followed.
MaxDepth == 2
\* Executions of one task that are followed.
MaxRuns == 3
\* job.c: slots of the table (the source has 1 << 16), slot 0 is never used
MAX_JOBS == 3
\* job.c: slots of the table, and jobs scheduled, in the program that gives
\* one job more than WC_MAX_CHILDREN dependents
WideJobs == 9
WideSchedule == 8
\* JobPool: slots of the pool (the source has 4096)
MAX_JOB_COUNT == 2
\* entries of a worker's ring (the source has QUEUE_MASK + 1 = 256)
RingSize == 4
\* jobs the client schedules or creates
MaxSchedule == 4
\* core.h
WC_MAX_CHILDREN == 6
\* fibers of a worker (the source has 64)
MAX_FIBERS_PER_WORKER == 1
\* worker_count passed to wc_pool_create (the source allows 1..64)
CreateWorkers == 2
\* pool->worker_count and g_worker_count (the source allows up to 65)
MaxPool == 4
\* NUMA nodes of the topology
MaxNodes == 3
\* profiler.h (the source has 1 << 12)
MAX_PROFILER_EVENTS == 3
\* threads that record, frames, and calls of profiler_record_job in a frame
NumRecorders == 2
MaxFrames == 2
MaxCount == 5
\* deque2.h (the source has 2048)
DEQUE_CAPACITY == 2
\* calls made on a deque used by one thread at a time
MaxCalls == 6
\* pool->max_idle_spins (1000) and pool->steal_attempts_per_round (4),
\* scaled down.
max_idle_spins == 1
steal_attempts_per_round == 1
\* values of pool->steal_attempts_per_round tried for one steal round, up to
\* the default of 4
MaxAttempts == 4
\* fibers of the worker whose fibers are followed one by one (the source has
\* MAX_FIBERS_PER_WORKER = 64), and the jobs scheduled for it
FibersPerWorker == 2
NumFiberJobs == 3

Null == 0

Range(seq) == {seq[i] : i \in 1..Len(seq)}

Thieves == 1..NumThieves
Owner == NumThieves + 1
Callers == {Owner} \cup Thieves
Elems == 1..MaxPush

VARIABLES
    impl,       \* which deque implementation is under test
    deque,      \* the deque: top, bottom, the buffers ever allocated, the live one
    own,        \* the owner thread: position in push/pop/resize and its locals
    thief,      \* each thief thread: position in steal and its locals
    hist,       \* what was pushed, what every pop and steal returned
    race        \* the pop/steal race on a one-element deque being observed

dequeVars == <<impl, deque, own, thief, hist, race>>

\* The task system on the work-stealing pool
VARIABLES
    prog,           \* the client program: which tasks, edges, group, what main does
    task,           \* WC_Task of every task: state, incoming_deps, outgoing_deps, group
    group,          \* the WC_TaskGroup: remaining_tasks, continuation
    local_queue,    \* workers[w].local_queue, a wc_deque
    global_queue,   \* pool->global_queue, a wc_deque
    workers,        \* WC_WorkerThread fields: current_task, tasks_executed
    pool,           \* pool counters: submitted, completed, sleeping_workers
    thread,         \* every thread's position: main (0) and the worker threads
    trace,          \* what the client observes: body executions, completions
    last_submit,    \* the task and the return value of the wc_pool_submit_task
                    \* the last step ended with, if it made one
    enqueued        \* how many calls of wc_pool_submit_task were made for a task

poolVars == <<prog, task, group, local_queue, global_queue, workers, pool,
              thread, trace, last_submit, enqueued>>

\* The job systems on slots and handles
VARIABLES
    jsys,               \* which job system runs: "job" (job.c) or "pool" (JobPool)
    g_jobs,             \* job.c: the JobSlot table, generation and WC_Job fields
    g_job_next_free,    \* job.c: the slot counter
    g_workers,          \* the deque of every worker
    job_pool,           \* JobPool: jobs, free_indices, free_head, free_tail
    jthread,            \* position of the main thread (0) and of the worker thread
    jlog                \* handles issued, what the last operation on a handle did

jobVars == <<jsys, g_jobs, g_job_next_free, g_workers, job_pool, jthread, jlog>>

\* Construction of the pool, victim selection, the profiler, and a deque
\* called by one thread at a time, each on its own
VARIABLES
    sys,        \* which of them runs: "create", "victim", "profiler" or "deque"
    ctor,       \* wc_pool_create: where it is, what it holds, the worker array
    sel,        \* victim selection: the pool, the topology, the thief, the pick
    prof,       \* the profiler: g_profiler_event_count, g_profiler_events
    seq,        \* a deque between two calls, and what the last call did
    fib         \* one worker of fiber.c: its fibers, its free stack, who runs

sysVars == <<sys, ctor, sel, prof, seq, fib>>

vars == <<dequeVars, poolVars, jobVars, sysVars>>

\* ------------------------------------------------------------------------
\* Index arithmetic
\* ------------------------------------------------------------------------
\* size_t values are kept as integers in a window around 0: a value v < 0
\* stands for 2^64 + v. Unsigned comparison of two such values:
\* The value of e, computed once, given to F
Let(e, F(_)) == CHOOSE y \in {F(v) : v \in {e}} : TRUE

ULt(a, b) == IF (a >= 0) = (b >= 0) THEN a < b ELSE a >= 0
ULe(a, b) == a = b \/ ULt(a, b)

\* i & (capacity - 1), capacity a power of two
Slot(i, capacity) == i % capacity

\* WC_CircularArray with every element NULL (wc_circular_array_create)
wc_circular_array_create(capacity) ==
    [capacity |-> capacity, elements |-> [i \in 0..(capacity - 1) |-> Null]]

\* deque_init / wc_deque_create / job_system_init: top = bottom = 0
EmptyDeque ==
    [top |-> 0, bottom |-> 0,
     buffer |-> <<wc_circular_array_create(QueueCap)>>, cur |-> 1]

Live(dq) == dq.buffer[dq.cur]

StoreElem(dq, i, job) ==
    [dq EXCEPT !.buffer[dq.cur].elements[Slot(i, Live(dq).capacity)] = job]

LoadElem(arr, i) == arr.elements[Slot(i, arr.capacity)]

\* ------------------------------------------------------------------------
\* History kept for the claims (not program state)
\* ------------------------------------------------------------------------
\* A thread outside any deque call: its locals are dead.
OwnReturn == [pc |-> "idle", b |-> 0, t |-> 0, job |-> Null, arr |-> Null]
ThiefReturn == [pc |-> "idle", t |-> 0, b |-> 0, job |-> Null, arr |-> 1]

OwnIdle == own.pc = "idle"
AllIdle == OwnIdle /\ \A th \in Thieves : thief[th].pc = "idle"

\* The race for the element of a one-element deque. It opens when a pop or a
\* steal begins on a quiescent deque holding exactly one element; calls that
\* begin while a call of the race is still running join it; it is decided
\* when every call that joined has returned.
NoRace == [active |-> FALSE, elem |-> Null, open |-> {}, joined |-> {},
           got |-> 0, other |-> FALSE]

RaceDone == race.active /\ race.open = {}

\* A pop or a steal by caller c begins.
RaceOnStart(c) ==
    IF race.active /\ ~RaceDone
    THEN [race EXCEPT !.open = @ \cup {c}, !.joined = @ \cup {c}]
    ELSE IF AllIdle /\ deque.bottom - deque.top = 1
            /\ LoadElem(Live(deque), deque.top) # Null
         THEN [active |-> TRUE, elem |-> LoadElem(Live(deque), deque.top),
               open |-> {c}, joined |-> {c}, got |-> 0, other |-> FALSE]
         ELSE NoRace

\* A pop or a steal by caller c returns job (Null for none).
RaceOnReturn(c, job) ==
    IF race.active /\ c \in race.open
    THEN [race EXCEPT !.open = @ \ {c},
                      !.got = IF job = race.elem THEN @ + 1 ELSE @,
                      !.other = @ \/ (job # Null /\ job # race.elem)]
    ELSE race

\* A push begins: the deque no longer holds one element only.
RaceOnPush == IF race.active /\ ~RaceDone THEN NoRace ELSE race

Count(job) == IF job = Null THEN hist.returned
              ELSE [hist.returned EXCEPT ![job] = @ + 1]

\* ------------------------------------------------------------------------
\* Ring deque (deque_push / deque_pop / deque_steal)
\* ------------------------------------------------------------------------
\* deque_push: b = bottom; ring[idx(b)] = job
deque_push_store ==
    /\ impl = "ring" /\ own.pc = "idle" /\ hist.pushed < MaxPush
    /\ LET job == hist.pushed + 1 IN
        /\ deque' = StoreElem(deque, deque.bottom, job)
        /\ own' = [own EXCEPT !.pc = "push_publish", !.b = deque.bottom, !.job = job]
        /\ hist' = [hist EXCEPT !.pushed = job, !.drained = FALSE]
    /\ race' = RaceOnPush
    /\ UNCHANGED <<poolVars, jobVars, sysVars, impl, thief>>

\* deque_push: bottom = b + 1
deque_push_publish ==
    /\ impl = "ring" /\ own.pc = "push_publish"
    /\ deque' = [deque EXCEPT !.bottom = own.b + 1]
    /\ own' = OwnReturn
    /\ UNCHANGED <<poolVars, jobVars, sysVars, impl, thief, hist, race>>

\* deque_pop: b = bottom; if (b == 0) return NULL; b--; bottom = b
deque_pop_take ==
    /\ impl = "ring" /\ own.pc = "idle" /\ hist.pops < MaxPop
    /\ IF deque.bottom = 0
       THEN /\ own' = OwnReturn
            /\ hist' = [hist EXCEPT !.pops = @ + 1, !.drained = AllIdle]
            /\ race' = RaceOnReturn(Owner, Null)
            /\ UNCHANGED deque
       ELSE /\ deque' = [deque EXCEPT !.bottom = @ - 1]
            /\ own' = [own EXCEPT !.pc = "pop_top", !.b = deque.bottom - 1]
            /\ hist' = [hist EXCEPT !.pops = @ + 1]
            /\ race' = RaceOnStart(Owner)
    /\ UNCHANGED <<poolVars, jobVars, sysVars, impl, thief>>

\* The value the ring deque's pop leaves in bottom after the race for the
\* last item: deque_pop returns without writing bottom again.
deque_pop_last_bottom(b) == b

\* deque_pop: t = top; the branches on t <= b and t == b
deque_pop_top ==
    /\ impl = "ring" /\ own.pc = "pop_top"
    /\ LET t == deque.top
           b == own.b
           job == LoadElem(Live(deque), b) IN
        IF t <= b
        THEN IF t = b
             THEN /\ own' = [own EXCEPT !.pc = "pop_cas", !.t = t, !.job = job]
                  /\ UNCHANGED <<hist, race>>
             ELSE /\ own' = OwnReturn
                  /\ hist' = [hist EXCEPT !.returned = Count(job)]
                  /\ race' = RaceOnReturn(Owner, job)
        ELSE /\ own' = [own EXCEPT !.pc = "pop_restore", !.t = t]
             /\ UNCHANGED <<hist, race>>
    /\ UNCHANGED <<poolVars, jobVars, sysVars, impl, deque, thief>>

\* deque_pop: the compare-exchange on top for the last item
deque_pop_cas ==
    /\ impl = "ring" /\ own.pc = "pop_cas"
    /\ LET won == deque.top = own.t
           job == IF won THEN own.job ELSE Null IN
        /\ deque' = [deque EXCEPT !.top = IF won THEN own.t + 1 ELSE @,
                                  !.bottom = deque_pop_last_bottom(own.b)]
        /\ own' = OwnReturn
        /\ hist' = [hist EXCEPT !.returned = Count(job),
                                !.drained = (job = Null) /\ \A th \in Thieves : thief[th].pc = "idle"]
        /\ race' = RaceOnReturn(Owner, job)
    /\ UNCHANGED <<poolVars, jobVars, sysVars, impl, thief>>

\* deque_pop: queue was empty after all, bottom = t
deque_pop_restore ==
    /\ impl = "ring" /\ own.pc = "pop_restore"
    /\ deque' = [deque EXCEPT !.bottom = own.t]
    /\ own' = OwnReturn
    /\ hist' = [hist EXCEPT !.drained = \A th \in Thieves : thief[th].pc = "idle"]
    /\ race' = RaceOnReturn(Owner, Null)
    /\ UNCHANGED <<poolVars, jobVars, sysVars, impl, thief>>

\* deque_steal: t = top
deque_steal_top(th) ==
    /\ impl = "ring" /\ thief[th].pc = "idle" /\ hist.steals[th] < MaxSteal
    /\ thief' = [thief EXCEPT ![th].pc = "steal_bottom", ![th].t = deque.top]
    /\ hist' = [hist EXCEPT !.steals[th] = @ + 1]
    /\ race' = RaceOnStart(th)
    /\ UNCHANGED <<poolVars, jobVars, sysVars, impl, deque, own>>

\* deque_steal: b = bottom; if (t < b)
deque_steal_bottom(th) ==
    /\ impl = "ring" /\ thief[th].pc = "steal_bottom"
    /\ IF thief[th].t < deque.bottom
       THEN /\ thief' = [thief EXCEPT ![th].pc = "steal_job", ![th].b = deque.bottom]
            /\ UNCHANGED race
       ELSE /\ thief' = [thief EXCEPT ![th] = ThiefReturn]
            /\ race' = RaceOnReturn(th, Null)
    /\ UNCHANGED <<poolVars, jobVars, sysVars, impl, deque, own, hist>>

\* deque_steal: job = ring[idx(t)]
deque_steal_job(th) ==
    /\ impl = "ring" /\ thief[th].pc = "steal_job"
    /\ thief' = [thief EXCEPT ![th].pc = "steal_cas",
                              ![th].job = LoadElem(Live(deque), thief[th].t)]
    /\ UNCHANGED <<poolVars, jobVars, sysVars, impl, deque, own, hist, race>>

\* deque_steal: the compare-exchange on top
deque_steal_cas(th) ==
    /\ impl = "ring" /\ thief[th].pc = "steal_cas"
    /\ LET won == deque.top = thief[th].t
           job == IF won THEN thief[th].job ELSE Null IN
        /\ deque' = [deque EXCEPT !.top = IF won THEN @ + 1 ELSE @]
        /\ thief' = [thief EXCEPT ![th] = ThiefReturn]
        /\ hist' = [hist EXCEPT !.returned = Count(job)]
        /\ race' = RaceOnReturn(th, job)
    /\ UNCHANGED <<poolVars, jobVars, sysVars, impl, own>>

RingNext ==
    \/ deque_push_store
    \/ deque_push_publish
    \/ deque_pop_take
    \/ deque_pop_top
    \/ deque_pop_cas
    \/ deque_pop_restore
    \/ \E th \in Thieves : deque_steal_top(th)
    \/ \E th \in Thieves : deque_steal_bottom(th)
    \/ \E th \in Thieves : deque_steal_job(th)
    \/ \E th \in Thieves : deque_steal_cas(th)

\* ------------------------------------------------------------------------
\* wc_deque of the thread pool
\*   (wc_deque_push_bottom / wc_deque_pop_bottom / wc_deque_steal_top /
\*    wc_deque_resize)
\* ------------------------------------------------------------------------
\* wc_deque_push_bottom: bottom = load(bottom); store the task in the array
wc_deque_push_bottom_store ==
    /\ impl = "wc" /\ own.pc = "idle" /\ hist.pushed < MaxPush
    /\ LET job == hist.pushed + 1 IN
        /\ deque' = StoreElem(deque, deque.bottom, job)
        /\ own' = [own EXCEPT !.pc = "push_publish", !.b = deque.bottom, !.job = job]
        /\ hist' = [hist EXCEPT !.pushed = job, !.drained = FALSE]
    /\ race' = RaceOnPush
    /\ UNCHANGED <<poolVars, jobVars, sysVars, impl, thief>>

\* wc_deque_push_bottom: store(bottom, bottom + 1)
wc_deque_push_bottom_publish ==
    /\ impl = "wc" /\ own.pc = "push_publish"
    /\ deque' = [deque EXCEPT !.bottom = own.b + 1]
    /\ own' = [own EXCEPT !.pc = "push_check"]
    /\ UNCHANGED <<poolVars, jobVars, sysVars, impl, thief, hist, race>>

\* wc_deque_push_bottom: bottom + 1 - top >= array->capacity, in size_t
ResizeNeeded(bottom, top, capacity) ==
    LET d == bottom + 1 - top IN d < 0 \/ d >= capacity

\* wc_deque_push_bottom: top = load_acquire(top); RESIZE_NEEDED or SUCCESS.
\* On RESIZE_NEEDED the caller runs wc_deque_resize.
wc_deque_push_bottom_check ==
    /\ impl = "wc" /\ own.pc = "push_check"
    /\ own' = IF ResizeNeeded(own.b, deque.top, Live(deque).capacity)
              THEN [own EXCEPT !.pc = "resize_copy"]
              ELSE OwnReturn
    /\ UNCHANGED <<poolVars, jobVars, sysVars, impl, deque, thief, hist, race>>

\* A copy loop that stops one element early: for (i = top; i + 1 < bottom; i++)
CopyElementsShort(old, top, bottom) ==
    LET newcap == old.capacity * 2
        covered(j) ==
            IF ~ULt(top, bottom - 1) THEN FALSE
            ELSE IF (top >= 0) = (bottom - 1 >= 0)
                 THEN \E i \in top..(bottom - 2) : Slot(i, newcap) = j
                 ELSE TRUE
    IN [capacity |-> newcap,
        elements |-> [j \in 0..(newcap - 1) |->
                        IF covered(j) THEN old.elements[Slot(j, old.capacity)]
                        ELSE Null]]

\* wc_deque_resize: the copy loop for (i = top; i < bottom; i++)
\*   new[i & (new_capacity - 1)] = old[i & (old_capacity - 1)]
\* with i a size_t. When bottom is below top in size_t nothing is copied;
\* when the range runs through the whole ring every new slot is written.
CopyElements(old, top, bottom) ==
    LET newcap == old.capacity * 2
        covered(j) ==
            IF ~ULt(top, bottom) THEN FALSE
            ELSE IF (top >= 0) = (bottom >= 0)
                 THEN \E i \in top..(bottom - 1) : Slot(i, newcap) = j
                 ELSE TRUE
    IN [capacity |-> newcap,
        elements |-> [j \in 0..(newcap - 1) |->
                        IF covered(j) THEN old.elements[Slot(j, old.capacity)]
                        ELSE Null]]

\* wc_deque_resize: allocate the new array and copy [top, bottom)
wc_deque_resize_copy ==
    /\ impl = "wc" /\ own.pc = "resize_copy"
    /\ own' = [own EXCEPT !.pc = "resize_swap",
                          !.arr = CopyElements(Live(deque), deque.top, deque.bottom)]
    /\ UNCHANGED <<poolVars, jobVars, sysVars, impl, deque, thief, hist, race>>

\* wc_deque_resize: store_release(buffer, new_array); the old array is leaked
wc_deque_resize_swap ==
    /\ impl = "wc" /\ own.pc = "resize_swap"
    /\ deque' = [deque EXCEPT !.buffer = Append(@, own.arr), !.cur = Len(deque.buffer) + 1]
    /\ own' = OwnReturn
    /\ UNCHANGED <<poolVars, jobVars, sysVars, impl, thief, hist, race>>

\* wc_deque_pop_bottom: bottom = load(bottom) - 1; store(bottom)
wc_deque_pop_bottom_take ==
    /\ impl = "wc" /\ own.pc = "idle" /\ hist.pops < MaxPop
    /\ deque' = [deque EXCEPT !.bottom = @ - 1]
    /\ own' = [own EXCEPT !.pc = "pop_top", !.b = deque.bottom - 1]
    /\ hist' = [hist EXCEPT !.pops = @ + 1]
    /\ race' = RaceOnStart(Owner)
    /\ UNCHANGED <<poolVars, jobVars, sysVars, impl, thief>>

\* wc_deque_pop_bottom: top = load(top); if (top <= bottom), in size_t
wc_deque_pop_bottom_top ==
    /\ impl = "wc" /\ own.pc = "pop_top"
    /\ LET t == deque.top
           b == own.b
           job == LoadElem(Live(deque), b) IN
        IF ULe(t, b)
        THEN IF t = b
             THEN /\ own' = [own EXCEPT !.pc = "pop_cas", !.t = t, !.job = job]
                  /\ UNCHANGED <<hist, race>>
             ELSE /\ own' = OwnReturn
                  /\ hist' = [hist EXCEPT !.returned = Count(job),
                                          !.drained = FALSE]
                  /\ race' = RaceOnReturn(Owner, job)
        ELSE /\ own' = [own EXCEPT !.pc = "pop_restore", !.t = t, !.job = Null]
             /\ UNCHANGED <<hist, race>>
    /\ UNCHANGED <<poolVars, jobVars, sysVars, impl, deque, thief>>

\* wc_deque_pop_bottom: the compare-exchange on top for the last element
wc_deque_pop_bottom_cas ==
    /\ impl = "wc" /\ own.pc = "pop_cas"
    /\ LET won == deque.top = own.t IN
        /\ deque' = [deque EXCEPT !.top = IF won THEN own.t + 1 ELSE @]
        /\ own' = [own EXCEPT !.pc = "pop_restore",
                              !.job = IF won THEN own.job ELSE Null]
    /\ UNCHANGED <<poolVars, jobVars, sysVars, impl, thief, hist, race>>

\* wc_deque_pop_bottom: store(bottom, bottom + 1), then return task
wc_deque_pop_bottom_restore ==
    /\ impl = "wc" /\ own.pc = "pop_restore"
    /\ deque' = [deque EXCEPT !.bottom = own.b + 1]
    /\ own' = OwnReturn
    /\ hist' = [hist EXCEPT !.returned = Count(own.job),
                            !.drained = (own.job = Null) /\ \A th \in Thieves : thief[th].pc = "idle"]
    /\ race' = RaceOnReturn(Owner, own.job)
    /\ UNCHANGED <<poolVars, jobVars, sysVars, impl, thief>>

\* wc_deque_steal_top: top = load_acquire(top)
wc_deque_steal_top_top(th) ==
    /\ impl = "wc" /\ thief[th].pc = "idle" /\ hist.steals[th] < MaxSteal
    /\ thief' = [thief EXCEPT ![th].pc = "steal_bottom", ![th].t = deque.top]
    /\ hist' = [hist EXCEPT !.steals[th] = @ + 1]
    /\ race' = RaceOnStart(th)
    /\ UNCHANGED <<poolVars, jobVars, sysVars, impl, deque, own>>

\* wc_deque_steal_top: bottom = load_acquire(bottom); if (top < bottom), in size_t
wc_deque_steal_top_bottom(th) ==
    /\ impl = "wc" /\ thief[th].pc = "steal_bottom"
    /\ IF ULt(thief[th].t, deque.bottom)
       THEN /\ thief' = [thief EXCEPT ![th].pc = "steal_buffer", ![th].b = deque.bottom]
            /\ UNCHANGED race
       ELSE /\ thief' = [thief EXCEPT ![th] = ThiefReturn]
            /\ race' = RaceOnReturn(th, Null)
    /\ UNCHANGED <<poolVars, jobVars, sysVars, impl, deque, own, hist>>

\* wc_deque_steal_top: array = load_acquire(buffer)
wc_deque_steal_top_buffer(th) ==
    /\ impl = "wc" /\ thief[th].pc = "steal_buffer"
    /\ thief' = [thief EXCEPT ![th].pc = "steal_job", ![th].arr = deque.cur]
    /\ UNCHANGED <<poolVars, jobVars, sysVars, impl, deque, own, hist, race>>

\* wc_deque_steal_top: task = load(array->elements[top & (capacity - 1)])
wc_deque_steal_top_job(th) ==
    /\ impl = "wc" /\ thief[th].pc = "steal_job"
    /\ thief' = [thief EXCEPT ![th].pc = "steal_cas",
                              ![th].job = LoadElem(deque.buffer[thief[th].arr], thief[th].t)]
    /\ UNCHANGED <<poolVars, jobVars, sysVars, impl, deque, own, hist, race>>

\* A steal that stores top + 1 without comparing.
wc_deque_steal_top_store(cur, expected) == TRUE

\* wc_deque_steal_top: whether compare_exchange_strong(&top, &top, top + 1)
\* succeeds, given the current and the expected value of top
wc_deque_steal_top_won(cur, expected) == cur = expected

\* wc_deque_steal_top: the compare-exchange on top
wc_deque_steal_top_cas(th) ==
    /\ impl = "wc" /\ thief[th].pc = "steal_cas"
    /\ LET won == wc_deque_steal_top_won(deque.top, thief[th].t)
           job == IF won THEN thief[th].job ELSE Null IN
        /\ deque' = [deque EXCEPT !.top = IF won THEN @ + 1 ELSE @]
        /\ thief' = [thief EXCEPT ![th] = ThiefReturn]
        /\ hist' = [hist EXCEPT !.returned = Count(job)]
        /\ race' = RaceOnReturn(th, job)
    /\ UNCHANGED <<poolVars, jobVars, sysVars, impl, own>>

WcNext ==
    \/ wc_deque_push_bottom_store
    \/ wc_deque_push_bottom_publish
    \/ wc_deque_push_bottom_check
    \/ wc_deque_resize_copy
    \/ wc_deque_resize_swap
    \/ wc_deque_pop_bottom_take
    \/ wc_deque_pop_bottom_top
    \/ wc_deque_pop_bottom_cas
    \/ wc_deque_pop_bottom_restore
    \/ \E th \in Thieves : wc_deque_steal_top_top(th)
    \/ \E th \in Thieves : wc_deque_steal_top_bottom(th)
    \/ \E th \in Thieves : wc_deque_steal_top_buffer(th)
    \/ \E th \in Thieves : wc_deque_steal_top_job(th)
    \/ \E th \in Thieves : wc_deque_steal_top_cas(th)

\* ------------------------------------------------------------------------
\* WorkStealingQueue of the handle job system
\*   (deque_push_bottom / deque_pop_bottom / deque_steal)
\* ------------------------------------------------------------------------
\* deque_push_bottom: b = bottom; t = top; if (b - t >= JOB_QUEUE_SIZE) return false
wsq_push_bottom_check ==
    /\ impl = "wsq" /\ own.pc = "idle" /\ hist.pushed < MaxPush
    /\ IF deque.bottom - deque.top >= Live(deque).capacity
       THEN /\ own' = OwnReturn
            /\ hist' = [hist EXCEPT !.full = TRUE]
       ELSE /\ own' = [own EXCEPT !.pc = "push_store", !.b = deque.bottom]
            /\ hist' = [hist EXCEPT !.drained = FALSE]
    /\ race' = RaceOnPush
    /\ UNCHANGED <<poolVars, jobVars, sysVars, impl, deque, thief>>

\* deque_push_bottom: jobs[b & (JOB_QUEUE_SIZE - 1)] = job
wsq_push_bottom_store ==
    /\ impl = "wsq" /\ own.pc = "push_store"
    /\ LET job == hist.pushed + 1 IN
        /\ deque' = StoreElem(deque, own.b, job)
        /\ own' = [own EXCEPT !.pc = "push_publish", !.job = job]
        /\ hist' = [hist EXCEPT !.pushed = job]
    /\ UNCHANGED <<poolVars, jobVars, sysVars, impl, thief, race>>

\* deque_push_bottom: InterlockedExchange(&bottom, b + 1)
wsq_push_bottom_publish ==
    /\ impl = "wsq" /\ own.pc = "push_publish"
    /\ deque' = [deque EXCEPT !.bottom = own.b + 1]
    /\ own' = OwnReturn
    /\ UNCHANGED <<poolVars, jobVars, sysVars, impl, thief, hist, race>>

\* deque_pop_bottom: b = InterlockedDecrement(&bottom)
wsq_pop_bottom_take ==
    /\ impl = "wsq" /\ own.pc = "idle" /\ hist.pops < MaxPop
    /\ deque' = [deque EXCEPT !.bottom = @ - 1]
    /\ own' = [own EXCEPT !.pc = "pop_top", !.b = deque.bottom - 1]
    /\ hist' = [hist EXCEPT !.pops = @ + 1]
    /\ race' = RaceOnStart(Owner)
    /\ UNCHANGED <<poolVars, jobVars, sysVars, impl, thief>>

\* deque_pop_bottom: t = top; if (t <= b), signed LONG
wsq_pop_bottom_top ==
    /\ impl = "wsq" /\ own.pc = "pop_top"
    /\ LET t == deque.top
           b == own.b
           job == LoadElem(Live(deque), b) IN
        IF t <= b
        THEN IF t = b
             THEN /\ own' = [own EXCEPT !.pc = "pop_cas", !.t = t, !.job = job]
                  /\ UNCHANGED <<hist, race>>
             ELSE /\ own' = OwnReturn
                  /\ hist' = [hist EXCEPT !.returned = Count(job)]
                  /\ race' = RaceOnReturn(Owner, job)
        ELSE /\ own' = [own EXCEPT !.pc = "pop_restore", !.t = t, !.job = Null]
             /\ UNCHANGED <<hist, race>>
    /\ UNCHANGED <<poolVars, jobVars, sysVars, impl, deque, thief>>

\* deque_pop_bottom: the compare-exchange on top for the last item
wsq_pop_bottom_cas ==
    /\ impl = "wsq" /\ own.pc = "pop_cas"
    /\ LET won == deque.top = own.t IN
        /\ deque' = [deque EXCEPT !.top = IF won THEN own.t + 1 ELSE @]
        /\ own' = [own EXCEPT !.pc = "pop_restore",
                              !.job = IF won THEN own.job ELSE Null]
    /\ UNCHANGED <<poolVars, jobVars, sysVars, impl, thief, hist, race>>

\* deque_pop_bottom: InterlockedIncrement(&bottom), then return
wsq_pop_bottom_restore ==
    /\ impl = "wsq" /\ own.pc = "pop_restore"
    /\ deque' = [deque EXCEPT !.bottom = @ + 1]
    /\ own' = OwnReturn
    /\ hist' = [hist EXCEPT !.returned = Count(own.job),
                            !.drained = (own.job = Null) /\ \A th \in Thieves : thief[th].pc = "idle"]
    /\ race' = RaceOnReturn(Owner, own.job)
    /\ UNCHANGED <<poolVars, jobVars, sysVars, impl, thief>>

\* deque_steal: t = top
wsq_steal_top(th) ==
    /\ impl = "wsq" /\ thief[th].pc = "idle" /\ hist.steals[th] < MaxSteal
    /\ thief' = [thief EXCEPT ![th].pc = "steal_bottom", ![th].t = deque.top]
    /\ hist' = [hist EXCEPT !.steals[th] = @ + 1]
    /\ race' = RaceOnStart(th)
    /\ UNCHANGED <<poolVars, jobVars, sysVars, impl, deque, own>>

\* deque_steal: b = bottom; if (t < b)
wsq_steal_bottom(th) ==
    /\ impl = "wsq" /\ thief[th].pc = "steal_bottom"
    /\ IF thief[th].t < deque.bottom
       THEN /\ thief' = [thief EXCEPT ![th].pc = "steal_job", ![th].b = deque.bottom]
            /\ UNCHANGED race
       ELSE /\ thief' = [thief EXCEPT ![th] = ThiefReturn]
            /\ race' = RaceOnReturn(th, Null)
    /\ UNCHANGED <<poolVars, jobVars, sysVars, impl, deque, own, hist>>

\* deque_steal: job = jobs[t & (JOB_QUEUE_SIZE - 1)]
wsq_steal_job(th) ==
    /\ impl = "wsq" /\ thief[th].pc = "steal_job"
    /\ thief' = [thief EXCEPT ![th].pc = "steal_cas",
                              ![th].job = LoadElem(Live(deque), thief[th].t)]
    /\ UNCHANGED <<poolVars, jobVars, sysVars, impl, deque, own, hist, race>>

\* deque_steal: the compare-exchange on top
wsq_steal_cas(th) ==
    /\ impl = "wsq" /\ thief[th].pc = "steal_cas"
    /\ LET won == deque.top = thief[th].t
           job == IF won THEN thief[th].job ELSE Null IN
        /\ deque' = [deque EXCEPT !.top = IF won THEN @ + 1 ELSE @]
        /\ thief' = [thief EXCEPT ![th] = ThiefReturn]
        /\ hist' = [hist EXCEPT !.returned = Count(job)]
        /\ race' = RaceOnReturn(th, job)
    /\ UNCHANGED <<poolVars, jobVars, sysVars, impl, own>>

WsqNext ==
    \/ wsq_push_bottom_check
    \/ wsq_push_bottom_store
    \/ wsq_push_bottom_publish
    \/ wsq_pop_bottom_take
    \/ wsq_pop_bottom_top
    \/ wsq_pop_bottom_cas
    \/ wsq_pop_bottom_restore
    \/ \E th \in Thieves : wsq_steal_top(th)
    \/ \E th \in Thieves : wsq_steal_bottom(th)
    \/ \E th \in Thieves : wsq_steal_job(th)
    \/ \E th \in Thieves : wsq_steal_cas(th)

\* ------------------------------------------------------------------------
\* Task system on the work-stealing pool: data
\* ------------------------------------------------------------------------
Main == 0
Threads == 0..NumWorkers
Tasks == 1..NumTasks

\* The wc_deque as one thread uses it while no other call on it is in
\* progress: the operations of the wc_deque section, each run to its end.
wc_deque_create(capacity) ==
    [top |-> 0, bottom |-> 0, buffer |-> wc_circular_array_create(capacity)]

wc_deque_push_bottom(deq, t) ==
    Let(deq, LAMBDA dq :
    [deque |-> [dq EXCEPT !.buffer.elements[Slot(dq.bottom, dq.buffer.capacity)] = t,
                          !.bottom = @ + 1],
     result |-> IF ResizeNeeded(dq.bottom, dq.top, dq.buffer.capacity)
                THEN "RESIZE_NEEDED" ELSE "SUCCESS"])

wc_deque_pop_bottom(dq) ==
    LET b == dq.bottom - 1
        t == dq.top
        found == LoadElem(dq.buffer, b) IN
    IF ULe(t, b)
    THEN IF t = b
         THEN [deque |-> [dq EXCEPT !.top = t + 1, !.bottom = b + 1], task |-> found]
         ELSE [deque |-> [dq EXCEPT !.bottom = b], task |-> found]
    ELSE [deque |-> dq, task |-> Null]

wc_deque_steal_top(dq) ==
    IF ULt(dq.top, dq.bottom)
    THEN [deque |-> [dq EXCEPT !.top = @ + 1], task |-> LoadElem(dq.buffer, dq.top)]
    ELSE [deque |-> dq, task |-> Null]

wc_deque_resize(dq) ==
    [dq EXCEPT !.buffer = CopyElements(dq.buffer, dq.top, dq.bottom)]

\* wc_deque_size(deque) == 0, with bottom >= top compared in size_t
wc_deque_is_empty(dq) == dq.bottom = dq.top \/ ULt(dq.bottom, dq.top)

\* The shared state an operation of the pool reads and writes, and whether
\* it broadcast the wake condition.
\* woke: the call went through wc_pool_wake_workers (sleep_mutex held)
NoSubmit == [task |-> Null, rc |-> 0, woke |-> FALSE]

Shared == [task |-> task, group |-> group, local_queue |-> local_queue,
           global_queue |-> global_queue, workers |-> workers, pool |-> pool,
           wake |-> FALSE, submit |-> NoSubmit, enqueued |-> enqueued]

\* wc_pool_wake_workers(pool, 1): broadcast when a worker is counted asleep
wc_pool_wake_workers(S) ==
    [S EXCEPT !.wake = @ \/ S.pool.sleeping_workers > 0]

\* wc_pool_submit_task: the push on the global queue when the local push
\* did not succeed
SubmitGlobal(S, t) ==
    Let(wc_deque_push_bottom(S.global_queue, t), LAMBDA r1 :
    Let(IF r1.result = "RESIZE_NEEDED"
        THEN wc_deque_push_bottom(wc_deque_resize(r1.deque), t)
        ELSE r1, LAMBDA r2 :
    Let([S EXCEPT !.global_queue = r2.deque], LAMBDA S2 :
    IF r2.result = "SUCCESS"
    THEN wc_pool_wake_workers([S2 EXCEPT !.submit = [task |-> t, rc |-> 0,
                                                     woke |-> TRUE]])
    ELSE [S2 EXCEPT !.submit = [task |-> t, rc |-> -1, woke |-> FALSE]])))

\* What wc_pool_submit_task does after wc_deque_push_bottom returned
\* WC_DEQUE_RESIZE_NEEDED on the local queue: resize, then push the task again.
PushAfterResize(dq, t) == wc_deque_push_bottom(wc_deque_resize(dq), t)

\* wc_pool_submit_task called on thread w (current = workers[w])
wc_pool_submit_task(S, w, t) ==
    Let([S EXCEPT !.pool.total_tasks_submitted = @ + 1,
                  !.enqueued[t] = @ + 1], LAMBDA S1 :
    Let(wc_deque_push_bottom(S1.local_queue[w], t), LAMBDA r1 :
    Let(IF r1.result = "RESIZE_NEEDED" THEN PushAfterResize(r1.deque, t) ELSE r1,
        LAMBDA r2 :
    Let([S1 EXCEPT !.local_queue[w] = r2.deque], LAMBDA S2 :
    IF r2.result = "SUCCESS"
    THEN [S2 EXCEPT !.submit = [task |-> t, rc |-> 0, woke |-> FALSE]]
    ELSE SubmitGlobal(S2, t)))))

\* wc_task_submit
wc_task_submit(S, w, t) ==
    Let(S, LAMBDA S0 :
    IF S0.task[t].incoming_deps = 0
    THEN wc_pool_submit_task([S0 EXCEPT !.task[t].state = "READY"], w, t)
    ELSE S0)

\* wc_task_submit_batch: mark every task without dependencies READY, then
\* wc_pool_submit_batch them in order
RECURSIVE wc_pool_submit_batch(_, _, _)
wc_pool_submit_batch(S, w, ready) ==
    IF ready = <<>> THEN S
    ELSE Let(wc_pool_submit_task(S, w, Head(ready)), LAMBDA S1 :
         wc_pool_submit_batch(S1, w, Tail(ready)))

wc_task_submit_batch(S, w, tasks) ==
    Let(S, LAMBDA S0 :
    LET isReady(t) == S0.task[t].incoming_deps = 0 IN
    Let(SelectSeq(tasks, isReady), LAMBDA ready :
    Let([S0 EXCEPT !.task = [t \in Tasks |->
            IF \E i \in 1..Len(ready) : ready[i] = t
            THEN [S0.task[t] EXCEPT !.state = "READY"] ELSE S0.task[t]]],
        LAMBDA S1 :
    wc_pool_submit_batch(S1, w, ready))))

\* wc_task_complete_internal: the loop over outgoing_deps from index i
RECURSIVE NotifyDependents(_, _, _, _)
NotifyDependents(S, w, t, i) ==
    Let(S, LAMBDA S0 :
    IF i > Len(S0.task[t].outgoing_deps) THEN S0
    ELSE Let(S0.task[t].outgoing_deps[i], LAMBDA dependent :
         Let(S0.task[dependent].incoming_deps - 1, LAMBDA remaining :
         Let([S0 EXCEPT !.task[dependent].incoming_deps = remaining], LAMBDA S1 :
         Let(IF remaining = 0
             THEN wc_pool_submit_task(
                      [S1 EXCEPT !.task[dependent].state = "READY"], w, dependent)
             ELSE S1, LAMBDA S2 :
         NotifyDependents(S2, w, t, i + 1))))))

\* wc_task_complete_internal: the task group part
NotifyGroup(S, w, t) ==
    Let(S, LAMBDA S0 :
    IF S0.task[t].group = Null THEN S0
    ELSE Let(S0.group.remaining_tasks - 1, LAMBDA remaining :
         Let([S0 EXCEPT !.group.remaining_tasks = remaining], LAMBDA S1 :
         IF remaining = 0 /\ S0.group.continuation # Null
         THEN wc_pool_submit_task(S1, w, S0.group.continuation)
         ELSE S1)))

wc_task_complete_internal(S, w, t) ==
    NotifyGroup(NotifyDependents([S EXCEPT !.task[t].state = "COMPLETED"], w, t, 1), w, t)

\* ------------------------------------------------------------------------
\* Task system on the work-stealing pool: the client programs
\* ------------------------------------------------------------------------
\* What main does with the tasks it created: the dependency edges it adds
\* (dependency, dependent), the group and its continuation, the tasks it
\* submits one by one, and the tasks it passes to wc_task_wait_all.
\*   coop    tasks created by wc_task_create_cooperative, and the number of
\*           times their function returns WC_TASK_YIELD before WC_TASK_COMPLETE
\*   waits   tasks whose body submits another task and calls wc_task_wait on it
\*   spawn   (parent, child) for every child made by wc_task_spawn_child
\*   destroy main calls wc_pool_destroy after its submissions, without waiting
\*   detach  main returns to its own work after its submissions, without waiting
\*   frame   main calls wc_task_group_wait and then wc_task_group_destroy
\*   link    (dependency, dependent) that main adds by wc_task_add_dependency
\*           right before it submits the dependent, the dependency being
\*           submitted already
NoProgram ==
    [name |-> "none", edges |-> <<>>, members |-> <<>>, continuation |-> Null,
     submit |-> <<>>, leaves |-> <<>>, coop |-> {}, yields |-> 0,
     waits |-> {}, target |-> Null, spawn |-> <<>>, destroy |-> FALSE,
     detach |-> FALSE, rounds |-> MaxSpins, link |-> <<>>, frame |-> FALSE]

Programs ==
    { [NoProgram EXCEPT !.name = "dag", !.edges = << <<1, 3>>, <<2, 3>> >>,
                        !.submit = <<1, 2, 3>>, !.leaves = <<3>>],
      [NoProgram EXCEPT !.name = "coop", !.edges = << <<1, 2>> >>,
                        !.coop = {1}, !.yields = 1,
                        !.submit = <<1, 2>>, !.leaves = <<1, 2>>],
      [NoProgram EXCEPT !.name = "group", !.members = <<1, 2>>, !.continuation = 3,
                        !.leaves = <<3>>],
      [NoProgram EXCEPT !.name = "wait", !.waits = {1}, !.target = 2,
                        !.submit = <<1, 3>>, !.leaves = <<1, 3>>],
      [NoProgram EXCEPT !.name = "spawn", !.spawn = << <<1, 2>> >>,
                        !.submit = <<1, 2>>, !.leaves = <<1, 2>>],
      [NoProgram EXCEPT !.name = "shutdown", !.waits = {1}, !.target = 2,
                        !.submit = <<1, 3>>, !.destroy = TRUE] }

\* A caller that submits three tasks, two of them cooperative, and returns to
\* its own work without waiting; the workers are followed through
\* LateSpins idle rounds.
LatePrograms ==
    { [NoProgram EXCEPT !.name = "late", !.coop = {1, 2}, !.yields = 1,
                        !.submit = <<1, 2, 3>>, !.leaves = <<1, 2, 3>>,
                        !.detach = TRUE, !.rounds = LateSpins] }

\* A caller that adds the dependency of task 2 on task 1 while task 1 may be
\* running; task 2 depends on task 3 as well.
LinkPrograms ==
    { [NoProgram EXCEPT !.name = "link", !.edges = << <<3, 2>> >>,
                        !.link = <<1, 2>>,
                        !.submit = <<1, 3, 2>>, !.leaves = <<2>>] }

\* A frame: the members of a group are submitted, main waits for the group
\* and destroys it (wc_game_frame_with_tasks)
FramePrograms ==
    { [NoProgram EXCEPT !.name = "frame", !.members = <<1, 2>>, !.frame = TRUE] }

\* wc_task_create_advanced: a PENDING task with no dependencies
wc_task_create ==
    [state |-> "PENDING", incoming_deps |-> 0, outgoing_deps |-> <<>>, group |-> Null,
     parent |-> Null]

\* wc_task_add_dependency(dependent, dependency) for every edge, in order
RECURSIVE wc_task_add_dependency(_, _)
wc_task_add_dependency(tk, edges) ==
    IF edges = <<>> THEN tk
    ELSE LET dependency == Head(edges)[1]
             dependent == Head(edges)[2] IN
         wc_task_add_dependency(
             [tk EXCEPT ![dependency].outgoing_deps = Append(@, dependent),
                        ![dependent].incoming_deps = @ + 1],
             Tail(edges))

\* wc_task_spawn_child(parent, function, data) for every (parent, child), in
\* order: child->parent = parent, then wc_task_add_dependency(parent, child),
\* whose first argument is the dependent task
RECURSIVE wc_task_spawn_child(_, _)
wc_task_spawn_child(tk, spawn) ==
    IF spawn = <<>> THEN tk
    ELSE LET parent == Head(spawn)[1]
             child == Head(spawn)[2]
             dependent_task == parent
             dependency_task == child IN
         wc_task_spawn_child(
             wc_task_add_dependency([tk EXCEPT ![child].parent = parent],
                                    << <<dependency_task, dependent_task>> >>),
             Tail(spawn))

\* wc_task_group_add for every member: task->group = group
wc_task_group_add(tk, members) ==
    [t \in Tasks |->
        IF \E i \in 1..Len(members) : members[i] = t
        THEN [tk[t] EXCEPT !.group = 1] ELSE tk[t]]

\* wc_task_group_create, wc_task_group_add (remaining_tasks counts the
\* members), wc_task_group_set_continuation
wc_task_group_create(p) ==
    [remaining_tasks |-> Len(p.members), continuation |-> p.continuation]

\* wc_pool_create: every queue empty, main is worker 0, no counter moved
PoolStart(programs) ==
    /\ prog \in programs
    /\ task = wc_task_group_add(
                  wc_task_spawn_child(
                      wc_task_add_dependency([t \in Tasks |-> wc_task_create],
                                             prog.edges),
                      prog.spawn),
                  prog.members)
    /\ group = wc_task_group_create(prog)
    /\ local_queue = [w \in Threads |-> wc_deque_create(QueueCap)]
    /\ global_queue = wc_deque_create(QueueCap)
    /\ workers = [w \in Threads |-> [current_task |-> Null, tasks_executed |-> 0]]
    /\ pool = [total_tasks_submitted |-> 0, total_tasks_completed |-> 0,
               sleeping_workers |-> 0, shutdown |-> FALSE]
    /\ thread = [w \in Threads |->
                   [pc |-> IF w = Main THEN "submit" ELSE "loop",
                    stack |-> <<>>, next |-> 1, attempts |-> 0,
                    idle_spins |-> 0, spins |-> 0]]
    /\ trace = [started |-> [t \in Tasks |-> 0],
                finished |-> [t \in Tasks |-> FALSE],
                freed |-> [t \in Tasks |-> FALSE],
                yields |-> [t \in Tasks |-> 0],
                completions |-> [t \in Tasks |-> 0]]
    /\ last_submit = NoSubmit
    /\ enqueued = [t \in Tasks |-> 0]

PoolInit == PoolStart(Programs)

LinkInit == PoolStart(LinkPrograms)

LateInit == PoolStart(LatePrograms)

\* The pool when no program runs on it
PoolIdle ==
    /\ prog = NoProgram
    /\ task = [t \in Tasks |-> wc_task_create]
    /\ group = wc_task_group_create(NoProgram)
    /\ local_queue = [w \in Threads |-> wc_deque_create(QueueCap)]
    /\ global_queue = wc_deque_create(QueueCap)
    /\ workers = [w \in Threads |-> [current_task |-> Null, tasks_executed |-> 0]]
    /\ pool = [total_tasks_submitted |-> 0, total_tasks_completed |-> 0,
               sleeping_workers |-> 0, shutdown |-> FALSE]
    /\ thread = [w \in Threads |->
                   [pc |-> "done", stack |-> <<>>, next |-> 1, attempts |-> 0,
                    idle_spins |-> 0, spins |-> 0]]
    /\ trace = [started |-> [t \in Tasks |-> 0],
                finished |-> [t \in Tasks |-> FALSE],
                freed |-> [t \in Tasks |-> FALSE],
                yields |-> [t \in Tasks |-> 0],
                completions |-> [t \in Tasks |-> 0]]
    /\ last_submit = NoSubmit
    /\ enqueued = [t \in Tasks |-> 0]

\* ------------------------------------------------------------------------
\* Task system on the work-stealing pool: the threads
\* ------------------------------------------------------------------------
\* SDL_BroadcastCondition(wake_condition): every thread in SDL_WaitCondition
\* returns from it
Broadcast(thr, wake) ==
    IF wake
    THEN [x \in Threads |-> IF thr[x].pc = "asleep"
                            THEN [thr[x] EXCEPT !.pc = "awake"] ELSE thr[x]]
    ELSE thr

\* The step of thread w leaves the shared state S0 and its own record rec.
Commit(S0, w, rec) ==
    \E S \in {S0} :
    /\ task' = S.task
    /\ group' = S.group
    /\ local_queue' = S.local_queue
    /\ global_queue' = S.global_queue
    /\ workers' = S.workers
    /\ pool' = S.pool
    /\ thread' = Broadcast([thread EXCEPT ![w] = rec], S.wake)
    /\ last_submit' = S.submit
    /\ enqueued' = S.enqueued
    /\ UNCHANGED <<prog, dequeVars, jobVars, sysVars>>

Top(w) == thread[w].stack[Len(thread[w].stack)]

\* Where a thread continues when the task execution on top of its stack, or a
\* wc_pool_process_tasks that found nothing, returns.
Resume(w, stack) ==
    IF stack # <<>> THEN "wait"
    ELSE IF w = Main THEN (IF prog.frame THEN "group_wait" ELSE "wait_all")
    ELSE "loop"

\* wc_pool_execute_task(workers[as], t), up to the call of the task function
ExecuteBegin(S, as, t) ==
    [S EXCEPT !.task[t].state = "RUNNING", !.workers[as].current_task = t]

\* Thread w found task t and executes it as workers[as].
Execute(S, w, as, t) ==
    /\ trace.started[t] < MaxRuns
    /\ Commit(ExecuteBegin(S, as, t), w,
              [thread[w] EXCEPT !.pc = "body", !.idle_spins = 0,
                                !.stack = Append(@, [task |-> t, as |-> as])])
    /\ trace' = [trace EXCEPT !.started[t] = @ + 1]

\* wc_pool_process_tasks(pool, 1) on thread w: pop workers[0].local_queue,
\* else steal from the global queue; execute what was found as workers[0].
wc_pool_process_tasks(w) ==
    \E r1 \in {wc_deque_pop_bottom(local_queue[Main])},
       r2 \in {wc_deque_steal_top(global_queue)} :
    \E S1 \in {[Shared EXCEPT !.local_queue[Main] = r1.deque]} :
    \E S2 \in {[S1 EXCEPT !.global_queue = r2.deque]} :
    IF r1.task # Null
    THEN /\ Len(thread[w].stack) < MaxDepth
         /\ Execute(S1, w, Main, r1.task)
    ELSE IF r2.task # Null
    THEN /\ Len(thread[w].stack) < MaxDepth
         /\ Execute(S2, w, Main, r2.task)
    ELSE /\ Commit(S2, w, [thread[w] EXCEPT !.pc = Resume(w, thread[w].stack)])
         /\ UNCHANGED trace

\* main is about to submit the dependent of the dependency it adds
LinkAt(i) ==
    prog.link # <<>> /\ i <= Len(prog.submit) /\ prog.submit[i] = prog.link[2]

\* main: wc_task_submit of the next task of the program
main_submit ==
    /\ thread[Main].pc = "submit" /\ prog.submit # <<>>
    /\ LET i == thread[Main].next IN
        Commit(wc_task_submit(Shared, Main, prog.submit[i]), Main,
               [thread[Main] EXCEPT !.next = i + 1,
                    !.pc = IF LinkAt(i + 1) THEN "add_dependency"
                           ELSE IF i < Len(prog.submit) THEN "submit"
                           ELSE IF prog.destroy THEN "destroy"
                           ELSE IF prog.detach THEN "done" ELSE "wait_all"])
    /\ UNCHANGED trace

\* main: wc_task_add_dependency(dependent, dependency) up to
\*   dependency->outgoing_deps[dependency->outgoing_count++] = dependent
\* The call requires the dependent PENDING and the dependency not COMPLETED;
\* main does not make the call when it sees the dependency completed.
wc_task_add_dependency_append ==
    /\ thread[Main].pc = "add_dependency"
    /\ LET dependency == prog.link[1]
           dependent == prog.link[2] IN
        IF task[dependent].state = "PENDING" /\ task[dependency].state # "COMPLETED"
        THEN Commit([Shared EXCEPT !.task[dependency].outgoing_deps =
                                        Append(@, dependent)],
                    Main, [thread[Main] EXCEPT !.pc = "increment"])
        ELSE Commit(Shared, Main, [thread[Main] EXCEPT !.pc = "submit"])
    /\ UNCHANGED trace

\* main: wc_task_add_dependency, wc_atomic_u64_fetch_add(incoming_deps, 1)
wc_task_add_dependency_increment ==
    /\ thread[Main].pc = "increment"
    /\ Commit([Shared EXCEPT !.task[prog.link[2]].incoming_deps = @ + 1],
              Main, [thread[Main] EXCEPT !.pc = "submit"])
    /\ UNCHANGED trace

\* main: wc_task_group_submit
main_group_submit ==
    /\ thread[Main].pc = "submit" /\ prog.members # <<>>
    /\ Commit(wc_task_submit_batch(Shared, Main, prog.members), Main,
              [thread[Main] EXCEPT !.pc = Resume(Main, <<>>)])
    /\ UNCHANGED trace

\* main: one round of the loop of wc_task_group_wait
wc_task_group_wait ==
    /\ thread[Main].pc = "group_wait"
    /\ IF group.remaining_tasks # 0
       THEN wc_pool_process_tasks(Main)
       ELSE /\ Commit(Shared, Main, [thread[Main] EXCEPT !.pc = "group_destroy"])
            /\ UNCHANGED trace

\* main: wc_task_group_destroy, the group goes back to g_task_group_pool
wc_task_group_destroy ==
    /\ thread[Main].pc = "group_destroy"
    /\ Commit(Shared, Main, [thread[Main] EXCEPT !.pc = "done"])
    /\ UNCHANGED trace

GroupFreed == prog.frame /\ thread[Main].pc = "done"

\* main: one round of the loop of wc_task_wait_all
wc_task_wait_all ==
    /\ thread[Main].pc = "wait_all"
    /\ IF \A i \in 1..Len(prog.leaves) : task[prog.leaves[i]].state = "COMPLETED"
       THEN /\ Commit(Shared, Main, [thread[Main] EXCEPT !.pc = "done"])
            /\ UNCHANGED trace
       ELSE wc_pool_process_tasks(Main)

\* worker_thread_main: the loop condition found shutdown set, the thread
\* returns
worker_exit(w) ==
    /\ w # Main /\ thread[w].pc = "loop" /\ pool.shutdown
    /\ Commit(Shared, w, [thread[w] EXCEPT !.pc = "exited"])
    /\ UNCHANGED trace

\* worker_thread_main, phase 1: pop the local queue
worker_pop_local(w) ==
    /\ w # Main /\ thread[w].pc = "loop" /\ thread[w].spins < prog.rounds
    /\ ~pool.shutdown
    /\ LET r == wc_deque_pop_bottom(local_queue[w])
           S == [Shared EXCEPT !.local_queue[w] = r.deque] IN
        IF r.task # Null
        THEN Execute(S, w, w, r.task)
        ELSE /\ Commit(S, w, [thread[w] EXCEPT !.pc = "steal", !.attempts = 0])
             /\ UNCHANGED trace

\* wc_pool_select_victim: a worker other than the thief
wc_pool_select_victim(w) == Threads \ {w}

\* worker_thread_main, phase 2: one attempt of wc_pool_steal_work_numa_aware
worker_steal(w) ==
    /\ w # Main /\ thread[w].pc = "steal"
    /\ \E victim \in wc_pool_select_victim(w) :
        LET r == wc_deque_steal_top(local_queue[victim])
            S == [Shared EXCEPT !.local_queue[victim] = r.deque]
            attempts == thread[w].attempts + 1 IN
        IF r.task # Null
        THEN Execute(S, w, w, r.task)
        ELSE /\ Commit(S, w, [thread[w] EXCEPT !.attempts = attempts,
                         !.pc = IF attempts < steal_attempts_per_round
                                THEN "steal" ELSE "global"])
             /\ UNCHANGED trace

\* worker_thread_main, phase 3: the global queues, then the idle handling.
\* No task of the programs has high priority: high_priority_queue stays
\* empty and stealing from it returns NULL.
worker_global(w) ==
    /\ w # Main /\ thread[w].pc = "global"
    /\ LET r == wc_deque_steal_top(global_queue)
           S == [Shared EXCEPT !.global_queue = r.deque]
           idle == thread[w].idle_spins + 1 IN
        IF r.task # Null
        THEN Execute(S, w, w, r.task)
        ELSE /\ Commit(S, w, [thread[w] EXCEPT !.idle_spins = idle,
                         !.spins = @ + 1,
                         !.pc = IF idle < max_idle_spins THEN "loop" ELSE "sleep"])
             /\ UNCHANGED trace

\* wc_pool_worker_sleep: count the worker asleep
wc_pool_worker_sleep(w) ==
    /\ w # Main /\ thread[w].pc = "sleep"
    /\ Commit([Shared EXCEPT !.pool.sleeping_workers = @ + 1], w,
              [thread[w] EXCEPT !.pc = "sleep_check"])
    /\ UNCHANGED trace

\* wc_pool_worker_sleep holding sleep_mutex: SDL_WaitCondition if the local
\* and the global queues are empty and shutdown is not set
worker_sleep_check(w) ==
    /\ w # Main /\ thread[w].pc = "sleep_check"
    /\ Commit(Shared, w,
              [thread[w] EXCEPT !.pc =
                  IF /\ wc_deque_is_empty(local_queue[w])
                     /\ wc_deque_is_empty(global_queue)
                     /\ ~pool.shutdown
                  THEN "asleep" ELSE "awake"])
    /\ UNCHANGED trace

\* wc_pool_worker_sleep after the wait: the worker is no longer asleep
worker_wake(w) ==
    /\ w # Main /\ thread[w].pc = "awake"
    /\ Commit([Shared EXCEPT !.pool.sleeping_workers = @ - 1], w,
              [thread[w] EXCEPT !.pc = "loop", !.idle_spins = 0])
    /\ UNCHANGED trace

\* What the function of a cooperative task returns when the wrapper calls
\* it: WC_TASK_YIELD prog.yields times, then WC_TASK_COMPLETE. Once the
\* wrapper has been freed the call reads freed memory and may return either.
coop_func(t) ==
    IF trace.freed[t] THEN {"YIELD", "COMPLETE"}
    ELSE IF trace.yields[t] < prog.yields THEN {"YIELD"} ELSE {"COMPLETE"}

\* wc_cooperative_task_wrapper running on thread w for task t
wc_cooperative_task_wrapper(w, t) ==
    \E result \in coop_func(t) :
        LET current_task == workers[w].current_task IN
        IF result = "YIELD" /\ current_task # Null
        THEN /\ Commit(wc_pool_submit_task(
                           [Shared EXCEPT !.task[current_task].state = "READY"],
                           w, current_task),
                       w, [thread[w] EXCEPT !.pc = "finish"])
             /\ trace' = [trace EXCEPT !.yields[t] = @ + 1]
        ELSE /\ Commit(Shared, w, [thread[w] EXCEPT !.pc = "finish"])
             /\ trace' = [trace EXCEPT !.freed[t] = TRUE,
                                       !.finished[t] = @ \/ result = "COMPLETE",
                                       !.yields[t] = IF result = "YIELD" THEN @ + 1 ELSE @]

\* wc_pool_execute_task: function(data), the body of the task on top of the
\* stack of thread w, up to its return or to its call of wc_task_wait
task_body(w) ==
    /\ thread[w].pc = "body"
    /\ LET t == Top(w).task IN
        IF t \in prog.coop
        THEN wc_cooperative_task_wrapper(w, t)
        ELSE IF t \in prog.waits
        THEN /\ Commit(wc_task_submit(Shared, w, prog.target), w,
                       [thread[w] EXCEPT !.pc = "wait"])
             /\ UNCHANGED trace
        ELSE /\ Commit(Shared, w, [thread[w] EXCEPT !.pc = "finish"])
             /\ trace' = [trace EXCEPT !.finished[t] = TRUE]

\* wc_task_wait(target) called by the body of the task on top of the stack:
\* one round of its loop
wc_task_wait(w) ==
    /\ thread[w].pc = "wait"
    /\ IF task[prog.target].state = "COMPLETED"
       THEN /\ Commit(Shared, w, [thread[w] EXCEPT !.pc = "finish"])
            /\ trace' = [trace EXCEPT !.finished[Top(w).task] = TRUE]
       ELSE wc_pool_process_tasks(w)

\* wc_pool_execute_task after the task function returned: the task is
\* marked COMPLETED
task_finish(w) ==
    /\ thread[w].pc = "finish"
    /\ Commit([Shared EXCEPT !.task[Top(w).task].state = "COMPLETED"], w,
              [thread[w] EXCEPT !.pc = "complete"])
    /\ UNCHANGED trace

\* The values of task->outgoing_count the loop of wc_task_complete_internal
\* can read: the field is a plain uint32_t, and while main is inside
\* wc_task_add_dependency on this task the read races with the increment and
\* returns the old or the new count.
outgoing_count(t) ==
    LET n == Len(task[t].outgoing_deps) IN
    IF thread[Main].pc = "increment" /\ prog.link[1] = t THEN {n - 1, n} ELSE {n}

\* wc_pool_execute_task: the statistics, wc_task_complete_internal, the
\* current task cleared
task_complete(w) ==
    /\ thread[w].pc = "complete"
    /\ LET t == Top(w).task
           as == Top(w).as
           rest == SubSeq(thread[w].stack, 1, Len(thread[w].stack) - 1)
           S0 == [Shared EXCEPT !.workers[as].tasks_executed = @ + 1,
                                !.pool.total_tasks_completed = @ + 1] IN
        \E count \in outgoing_count(t) :
        \E S1 \in {[S0 EXCEPT !.task[t].outgoing_deps = SubSeq(@, 1, count)]} :
        \E R \in {wc_task_complete_internal(S1, w, t)} :
        \E S2 \in {[R EXCEPT !.task[t].outgoing_deps = task[t].outgoing_deps]} :
        \E S3 \in {[S2 EXCEPT !.workers[as].current_task = Null]} :
        /\ Commit(S3, w, [thread[w] EXCEPT !.stack = rest, !.pc = Resume(w, rest)])
        /\ trace' = [trace EXCEPT !.completions[t] = @ + 1]

\* wc_pool_execute_task and wc_task_complete_internal up to the fetch_sub on
\* group->remaining_tasks, taken on its own: the statistics, the dependents,
\* the decrement. A task without group, or one that left members behind,
\* is done with it.
task_complete_remaining(w) ==
    /\ thread[w].pc = "complete"
    /\ LET t == Top(w).task
           as == Top(w).as
           rest == SubSeq(thread[w].stack, 1, Len(thread[w].stack) - 1)
           S0 == [Shared EXCEPT !.workers[as].tasks_executed = @ + 1,
                                !.pool.total_tasks_completed = @ + 1,
                                !.task[t].state = "COMPLETED"] IN
        \E S1 \in {NotifyDependents(S0, w, t, 1)} :
        \E remaining \in {S1.group.remaining_tasks - 1} :
        /\ IF task[t].group = Null
           THEN Commit([S1 EXCEPT !.workers[as].current_task = Null], w,
                       [thread[w] EXCEPT !.stack = rest, !.pc = Resume(w, rest)])
           ELSE IF remaining # 0
           THEN Commit([S1 EXCEPT !.group.remaining_tasks = remaining,
                                  !.workers[as].current_task = Null], w,
                       [thread[w] EXCEPT !.stack = rest, !.pc = Resume(w, rest)])
           ELSE Commit([S1 EXCEPT !.group.remaining_tasks = remaining], w,
                       [thread[w] EXCEPT !.pc = "group_complete"])
        /\ trace' = [trace EXCEPT !.completions[t] = @ + 1]

\* wc_task_complete_internal after the fetch_sub returned 1: it reads
\* group->continuation and group->auto_destroy. Once the group went back to
\* its pool the read returns whatever the memory holds by then.
task_complete_group(w) ==
    /\ thread[w].pc = "group_complete"
    /\ LET as == Top(w).as
           rest == SubSeq(thread[w].stack, 1, Len(thread[w].stack) - 1) IN
        \E continuation \in IF GroupFreed THEN {Null} \cup Tasks
                                          ELSE {group.continuation} :
        \E S1 \in {IF continuation # Null
                   THEN wc_pool_submit_task(Shared, w, continuation) ELSE Shared} :
        Commit([S1 EXCEPT !.workers[as].current_task = Null], w,
               [thread[w] EXCEPT !.stack = rest, !.pc = Resume(w, rest)])
    /\ UNCHANGED trace

\* wc_pool_destroy: signal shutdown
wc_pool_destroy ==
    /\ thread[Main].pc = "destroy"
    /\ Commit([Shared EXCEPT !.pool.shutdown = TRUE], Main,
              [thread[Main] EXCEPT !.pc = "destroy_wake"])
    /\ UNCHANGED trace

\* wc_pool_destroy: wc_pool_wake_workers(pool, UINT32_MAX)
wc_pool_destroy_wake ==
    /\ thread[Main].pc = "destroy_wake"
    /\ Commit(wc_pool_wake_workers(Shared), Main, [thread[Main] EXCEPT !.pc = "join"])
    /\ UNCHANGED trace

\* wc_pool_destroy: SDL_WaitThread has returned for every worker thread
wc_pool_destroy_join ==
    /\ thread[Main].pc = "join"
    /\ \A w \in Threads \ {Main} : thread[w].pc = "exited"
    /\ Commit(Shared, Main, [thread[Main] EXCEPT !.pc = "destroyed"])
    /\ UNCHANGED trace

PoolNext ==
    \/ main_submit
    \/ wc_pool_destroy
    \/ wc_pool_destroy_wake
    \/ wc_pool_destroy_join
    \/ \E w \in Threads : worker_exit(w)
    \/ \E w \in Threads : worker_sleep_check(w)
    \/ main_group_submit
    \/ wc_task_wait_all
    \/ \E w \in Threads : worker_pop_local(w)
    \/ \E w \in Threads : worker_steal(w)
    \/ \E w \in Threads : worker_global(w)
    \/ \E w \in Threads : wc_pool_worker_sleep(w)
    \/ \E w \in Threads : worker_wake(w)
    \/ \E w \in Threads : task_body(w)
    \/ \E w \in Threads : wc_task_wait(w)
    \/ \E w \in Threads : task_finish(w)
    \/ \E w \in Threads : task_complete(w)

\* ------------------------------------------------------------------------
\* Job system of job.c and fiber.c: slots, handles, the ring deque
\* ------------------------------------------------------------------------
JThreads == 0..1
JSlots == 0..(MAX_JOBS - 1)

make_handle(idx, gen) == [idx |-> idx, gen |-> gen]
g_job_none == make_handle(0, 0)

\* The ring deque as one thread uses it while no other call on it is in
\* progress: deque_init, deque_push, deque_pop, deque_steal run to their end.
deque_init == [top |-> 0, bottom |-> 0, ring |-> [i \in 0..(RingSize - 1) |-> 0]]

deque_push(dq, job) ==
    [dq EXCEPT !.ring[dq.bottom % RingSize] = job, !.bottom = @ + 1]

deque_pop(deq) ==
    Let(deq, LAMBDA dq :
    IF dq.bottom = 0 THEN [deque |-> dq, job |-> 0]
    ELSE Let(dq.bottom - 1, LAMBDA b :
         IF dq.top <= b
         THEN [deque |-> [dq EXCEPT !.bottom = b,
                                    !.top = IF dq.top = b THEN @ + 1 ELSE @],
               job |-> dq.ring[b % RingSize]]
         ELSE [deque |-> [dq EXCEPT !.bottom = dq.top], job |-> 0]))

deque_steal(deq) ==
    Let(deq, LAMBDA dq :
    IF dq.top < dq.bottom
    THEN [deque |-> [dq EXCEPT !.top = @ + 1], job |-> dq.ring[dq.top % RingSize]]
    ELSE [deque |-> dq, job |-> 0])

\* The state job.c works on
Jobs == [g_jobs |-> g_jobs, g_job_next_free |-> g_job_next_free,
         g_workers |-> g_workers]

\* job_init, worker_init
job_init ==
    [g_jobs |-> [i \in JSlots |->
                    [generation |-> 0, depLeft |-> 0, childCnt |-> 0,
                     childIdx |-> [c \in 0..(WC_MAX_CHILDREN - 1) |-> 0]]],
     g_job_next_free |-> 1,
     g_workers |-> [w \in JThreads |-> deque_init]]

\* MAX_JOBS as job_schedule sees it: the number of slots of g_jobs
TableSize(G) == Cardinality(DOMAIN G.g_jobs)

\* job_schedule on thread w: the new state, the handle returned, whether the
\* job was recorded as a child of `after`, whether it was pushed
job_schedule(G, w, after) ==
    Let((G.g_job_next_free % (TableSize(G) - 1)) + 1, LAMBDA idx :
    Let(G.g_jobs[idx].generation + 1, LAMBDA current_gen :
    Let([G EXCEPT !.g_job_next_free = @ + 1,
                  !.g_jobs[idx].generation = current_gen,
                  !.g_jobs[idx].depLeft = 1,
                  !.g_jobs[idx].childCnt = 0], LAMBDA G1 :
    Let(after.idx # 0 /\ G1.g_jobs[after.idx].generation = after.gen, LAMBDA valid :
    Let(valid /\ G1.g_jobs[after.idx].childCnt < WC_MAX_CHILDREN, LAMBDA linked :
    Let(IF linked
        THEN [G1 EXCEPT !.g_jobs[after.idx].childIdx[G1.g_jobs[after.idx].childCnt] = idx,
                        !.g_jobs[after.idx].childCnt = @ + 1,
                        !.g_jobs[idx].depLeft = @ + 1]
        ELSE G1, LAMBDA G2 :
    Let(G2.g_jobs[idx].depLeft - 1, LAMBDA left :
    [state |-> IF left = 0
               THEN [G2 EXCEPT !.g_jobs[idx].depLeft = left,
                               !.g_workers[w] = deque_push(@, idx)]
               ELSE [G2 EXCEPT !.g_jobs[idx].depLeft = left],
     handle |-> make_handle(idx, current_gen),
     valid |-> valid,
     linked |-> linked,
     pushed |-> left = 0])))))))

\* job_finish_callback of the job in slot idx on thread w, from child i on:
\* the new state and the children pushed
RECURSIVE job_finish_callback(_, _, _, _, _)
job_finish_callback(G, w, idx, i, released) ==
    Let(G, LAMBDA G0 :
    IF i >= G0.g_jobs[idx].childCnt THEN [state |-> G0, released |-> released]
    ELSE Let(G0.g_jobs[idx].childIdx[i], LAMBDA child_idx :
         IF child_idx = 0 THEN job_finish_callback(G0, w, idx, i + 1, released)
         ELSE Let(G0.g_jobs[child_idx].depLeft - 1, LAMBDA left :
              Let(IF left = 0
                  THEN [G0 EXCEPT !.g_jobs[child_idx].depLeft = left,
                                  !.g_workers[w] = deque_push(@, child_idx)]
                  ELSE [G0 EXCEPT !.g_jobs[child_idx].depLeft = left], LAMBDA G1 :
              job_finish_callback(G1, w, idx, i + 1,
                  IF left = 0 THEN released \cup {child_idx} ELSE released)))))

\* find_job_for_worker on thread w: pop the own deque, else steal from the
\* other worker
find_job_for_worker(G, w) ==
    Let(deque_pop(G.g_workers[w]), LAMBDA r1 :
    Let([G EXCEPT !.g_workers[w] = r1.deque], LAMBDA G1 :
    IF r1.job # 0 THEN [state |-> G1, job |-> r1.job]
    ELSE Let(CHOOSE v \in JThreads : v # w, LAMBDA victim_idx :
         Let(deque_steal(G1.g_workers[victim_idx]), LAMBDA r2 :
         [state |-> [G1 EXCEPT !.g_workers[victim_idx] = r2.deque], job |-> r2.job]))))

\* ------------------------------------------------------------------------
\* What the client observes of the job systems
\* ------------------------------------------------------------------------
\* Every handle the client received, in order, with what became of its job:
\* "pending" (waits for a dependency), "queued", "running", "completed".
NoLog ==
    [issued |-> <<>>,
     op |-> [kind |-> "none", stale |-> FALSE, noop |-> TRUE],
     wait |-> [returned |-> FALSE, stale |-> FALSE, phase |-> "none"],
     \* the threads that called deque_push_bottom or deque_pop_bottom on
     \* workers[1].deque
     bottom |-> {}]

Handles == {make_handle(jlog.issued[i].idx, jlog.issued[i].gen) :
               i \in 1..Len(jlog.issued)}

SetPhase(issued, idx, gen, phase) ==
    [i \in 1..Len(issued) |->
        IF issued[i].idx = idx /\ issued[i].gen = gen
        THEN [issued[i] EXCEPT !.phase = phase] ELSE issued[i]]

PhaseOf(h) ==
    LET found == {i \in 1..Len(jlog.issued) :
                     jlog.issued[i].idx = h.idx /\ jlog.issued[i].gen = h.gen} IN
    IF found = {} THEN "none" ELSE jlog.issued[CHOOSE i \in found : TRUE].phase

\* The place in jlog.issued of the job the handle names, 0 for a handle
\* that was never issued
IssuedAt(h) ==
    LET found == {i \in 1..Len(jlog.issued) :
                     jlog.issued[i].idx = h.idx /\ jlog.issued[i].gen = h.gen} IN
    IF found = {} THEN 0 ELSE CHOOSE i \in found : TRUE

\* The job the handle names has completed and its slot has been given to
\* another job since.
Reused(h) ==
    /\ PhaseOf(h) = "completed"
    /\ \E i, j \in 1..Len(jlog.issued) :
          /\ i < j
          /\ jlog.issued[i].idx = h.idx /\ jlog.issued[i].gen = h.gen
          /\ jlog.issued[j].idx = h.idx

\* ------------------------------------------------------------------------
\* Job system of job.c and fiber.c: the threads
\* ------------------------------------------------------------------------
\* The step of thread w leaves the state G of job.c, its own record rec and
\* the log.
JobCommit(G0, w, rec, log) ==
    \E G \in {G0} :
    /\ g_jobs' = G.g_jobs
    /\ g_job_next_free' = G.g_job_next_free
    /\ g_workers' = G.g_workers
    /\ jthread' = [jthread EXCEPT ![w] = rec]
    /\ jlog' = log
    /\ UNCHANGED <<jsys, job_pool, dequeVars, poolVars, sysVars>>

\* main: job_schedule(name, func, data, after)
job_schedule_call(after) ==
    /\ jthread[0].pc = "client"
    /\ \/ jsys = "job" /\ Len(jlog.issued) < MaxSchedule
       \/ jsys = "wide" /\ Len(jlog.issued) < WideSchedule
    /\ \E r \in {job_schedule(Jobs, 0, after)} :
        JobCommit(r.state, 0, jthread[0],
            [jlog EXCEPT
                !.issued = Append(@, [idx |-> r.handle.idx, gen |-> r.handle.gen,
                                      phase |-> IF r.pushed THEN "queued" ELSE "pending",
                                      \* the job `after` named, if the handle
                                      \* was valid, and whether it was
                                      \* completed already
                                      after |-> IF r.valid THEN IssuedAt(after) ELSE 0,
                                      late |-> r.valid /\ PhaseOf(after) = "completed",
                                      linked |-> r.linked]),
                !.op = [kind |-> IF after = g_job_none THEN "none" ELSE "after",
                        stale |-> Reused(after), noop |-> ~r.valid]])

\* main: job_wait(h) up to its loop
job_wait_begin(h) ==
    /\ jsys = "job" /\ jthread[0].pc = "client"
    /\ IF h.idx = 0 \/ g_jobs[h.idx].generation # h.gen
       THEN JobCommit(Jobs, 0, jthread[0],
                [jlog EXCEPT !.op = [kind |-> "wait", stale |-> Reused(h), noop |-> TRUE],
                             !.wait = [returned |-> TRUE, stale |-> TRUE,
                                       phase |-> PhaseOf(h)]])
       ELSE JobCommit(Jobs, 0, [jthread[0] EXCEPT !.pc = "wait", !.h = h],
                [jlog EXCEPT !.op = [kind |-> "wait", stale |-> Reused(h), noop |-> FALSE],
                             !.wait = NoLog.wait])

\* SwitchToFiber(scheduler_fiber) called on the scheduler fiber itself:
\* switching to the running fiber is undefined, the call returns or the
\* thread is lost
SwitchToSelf == {"returns", "lost"}

\* fiber_execute_job on thread w, called from the loop `ret`: up to the call
\* of the job function, on a free fiber when there is one. When no job was
\* found, job_wait calls job_yield on the scheduler fiber and
\* worker_thread_entry calls Sleep(0).
fiber_execute_job(w, ret) ==
    \E r \in {find_job_for_worker(Jobs, w)} :
        IF r.job = 0
        THEN \E outcome \in IF ret = "wait" THEN SwitchToSelf ELSE {"returns"} :
               JobCommit(r.state, w,
                   [jthread[w] EXCEPT !.pc = IF outcome = "lost" THEN "lost" ELSE @],
                   jlog)
        ELSE JobCommit(r.state, w,
                 [jthread[w] EXCEPT !.pc = "exec", !.job = r.job, !.ret = ret,
                      !.fiber = jthread[w].free_top > 0,
                      !.free_top = IF @ > 0 THEN @ - 1 ELSE @,
                      !.yielded = FALSE],
                 [jlog EXCEPT !.issued =
                     SetPhase(@, r.job, g_jobs[r.job].generation, "running")])

\* main: one round of the loop of job_wait
job_wait ==
    /\ jsys = "job" /\ jthread[0].pc = "wait"
    /\ LET h == jthread[0].h IN
        IF g_jobs[h.idx].depLeft > 0
        THEN fiber_execute_job(0, "wait")
        ELSE JobCommit(Jobs, 0, [jthread[0] EXCEPT !.pc = "client", !.h = g_job_none],
                 [jlog EXCEPT !.wait = [returned |-> TRUE,
                                        stale |-> g_jobs[h.idx].generation # h.gen,
                                        phase |-> PhaseOf(h)]])

\* worker_thread_entry: one round of the loop of the worker thread
worker_thread_entry ==
    /\ jsys \in {"job", "wide"} /\ jthread[1].pc = "loop"
    /\ fiber_execute_job(1, "loop")

\* fiber_trampoline, fiber_execute_job: the job function returned,
\* finish_callback runs
fiber_trampoline(w) ==
    /\ jsys \in {"job", "wide"} /\ jthread[w].pc = "exec"
    /\ LET job == jthread[w].job IN
       \E r \in {job_finish_callback(Jobs, w, job, 0, {})} :
        JobCommit(r.state, w,
            [jthread[w] EXCEPT !.pc = jthread[w].ret, !.job = 0, !.fiber = FALSE,
                 !.free_top = IF jthread[w].fiber THEN @ + 1 ELSE @],
            [jlog EXCEPT !.issued =
                [i \in 1..Len(@) |->
                    IF @[i].gen # g_jobs[@[i].idx].generation THEN @[i]
                    ELSE IF @[i].idx = job THEN [@[i] EXCEPT !.phase = "completed"]
                    ELSE IF @[i].idx \in r.released THEN [@[i] EXCEPT !.phase = "queued"]
                    ELSE @[i]]])

\* job_yield called by the function of the job thread w runs. On a fiber:
\* fiber_yield switches to the scheduler fiber, fiber_execute_job finds the
\* fiber not available, keeps it off the free list and returns true; no
\* code switches to the fiber again. Without a fiber the job function runs
\* on the scheduler fiber.
job_yield(w) ==
    /\ jsys = "job" /\ jthread[w].pc = "exec" /\ ~jthread[w].yielded
    /\ IF jthread[w].fiber
       THEN JobCommit(Jobs, w,
                [jthread[w] EXCEPT !.pc = jthread[w].ret, !.job = 0, !.fiber = FALSE],
                [jlog EXCEPT !.issued =
                    SetPhase(@, jthread[w].job, g_jobs[jthread[w].job].generation,
                             "suspended")])
       ELSE \E outcome \in SwitchToSelf :
               JobCommit(Jobs, w,
                   [jthread[w] EXCEPT !.yielded = TRUE,
                        !.pc = IF outcome = "lost" THEN "lost" ELSE @],
                   jlog)

\* main: job_frame_end()
job_frame_end ==
    /\ jsys = "job" /\ jthread[0].pc = "client"
    /\ JobCommit([Jobs EXCEPT !.g_job_next_free = 1], 0, jthread[0], jlog)

JobNext ==
    \/ \E after \in Handles \cup {g_job_none} : job_schedule_call(after)
    \/ job_frame_end
    \/ \E h \in Handles : job_wait_begin(h)
    \/ job_wait
    \/ worker_thread_entry
    \/ \E w \in JThreads : fiber_trampoline(w)
    \/ \E w \in JThreads : job_yield(w)

\* ------------------------------------------------------------------------
\* Job system on the JobPool: slots, handles, the work-stealing queue
\* ------------------------------------------------------------------------
INVALID_JOB_HANDLE == make_handle(0, 0)

\* A Job* is the slot index plus one; NULL is 0.
JobAt(P, job) == P.jobs[job - 1]

job_pool_init ==
    [jobs |-> [i \in 0..(MAX_JOB_COUNT - 1) |->
                  [generation |-> 1, allocated |-> FALSE,
                   parent_index |-> MAX_JOB_COUNT, unfinished_jobs |-> 0]],
     free_indices |-> [i \in 0..(MAX_JOB_COUNT - 1) |-> i],
     free_head |-> 0,
     free_tail |-> MAX_JOB_COUNT]

\* The handle check without the comparison of the generations
get_job_allocated(P, h) ==
    IF h = INVALID_JOB_HANDLE \/ h.idx >= MAX_JOB_COUNT THEN 0
    ELSE IF ~P.jobs[h.idx].allocated THEN 0 ELSE h.idx + 1

get_job_from_handle(P, h) ==
    IF h = INVALID_JOB_HANDLE \/ h.idx >= MAX_JOB_COUNT THEN 0
    ELSE IF P.jobs[h.idx].generation # h.gen \/ ~P.jobs[h.idx].allocated THEN 0
    ELSE h.idx + 1

job_alloc(P) ==
    IF P.free_head >= P.free_tail THEN [pool |-> P, handle |-> INVALID_JOB_HANDLE]
    ELSE Let(P.free_indices[P.free_head % MAX_JOB_COUNT], LAMBDA idx :
         [pool |-> [P EXCEPT !.free_head = @ + 1, !.jobs[idx].allocated = TRUE],
          handle |-> make_handle(idx, P.jobs[idx].generation)])

job_free(P, job) ==
    [P EXCEPT !.jobs[job - 1].generation = @ + 1,
              !.jobs[job - 1].allocated = FALSE,
              !.free_indices[P.free_tail % MAX_JOB_COUNT] = job - 1,
              !.free_tail = @ + 1]

job_create(P) ==
    Let(job_alloc(P), LAMBDA a :
    IF a.handle = INVALID_JOB_HANDLE THEN a
    ELSE [pool |-> [a.pool EXCEPT !.jobs[a.handle.idx].parent_index = MAX_JOB_COUNT,
                                  !.jobs[a.handle.idx].unfinished_jobs = 1],
          handle |-> a.handle])

\* job_create_as_child: the pool, the handle returned, the parent Job* found
job_create_as_child(P, parent_handle) ==
    Let(get_job_from_handle(P, parent_handle), LAMBDA parent :
    IF parent = 0 THEN [pool |-> P, handle |-> INVALID_JOB_HANDLE, parent |-> parent]
    ELSE Let(job_alloc([P EXCEPT !.jobs[parent - 1].unfinished_jobs = @ + 1]), LAMBDA a :
         IF a.handle = INVALID_JOB_HANDLE
         THEN [pool |-> P, handle |-> a.handle, parent |-> parent]
         ELSE [pool |-> [a.pool EXCEPT
                            !.jobs[a.handle.idx].parent_index = parent_handle.idx,
                            !.jobs[a.handle.idx].unfinished_jobs = 1],
               handle |-> a.handle, parent |-> parent]))

\* job_execute after the job function returned
job_execute(P, job) ==
    Let(JobAt(P, job).parent_index, LAMBDA parent_index :
    Let(IF parent_index < MAX_JOB_COUNT
        THEN [P EXCEPT !.jobs[parent_index].unfinished_jobs = @ - 1]
        ELSE P, LAMBDA P1 :
    job_free([P1 EXCEPT !.jobs[job - 1].unfinished_jobs = @ - 1], job)))

\* job_is_complete: the result and the Job* whose counter was read
job_is_complete(P, h) ==
    Let(get_job_from_handle(P, h), LAMBDA job :
    [result |-> IF job = 0 THEN TRUE ELSE JobAt(P, job).unfinished_jobs = 0,
     job |-> job])

\* deque_push_bottom, deque_pop_bottom and deque_steal of the
\* WorkStealingQueue, each run to its end
wsq_push(dq, job) ==
    IF dq.bottom - dq.top >= RingSize THEN [deque |-> dq, pushed |-> FALSE]
    ELSE [deque |-> [dq EXCEPT !.ring[dq.bottom % RingSize] = job, !.bottom = @ + 1],
          pushed |-> TRUE]

wsq_pop(dq) ==
    IF dq.top <= dq.bottom - 1
    THEN [deque |-> IF dq.top = dq.bottom - 1 THEN [dq EXCEPT !.top = @ + 1]
                    ELSE [dq EXCEPT !.bottom = @ - 1],
          job |-> dq.ring[(dq.bottom - 1) % RingSize]]
    ELSE [deque |-> dq, job |-> 0]

wsq_steal(dq) ==
    IF dq.top < dq.bottom
    THEN [deque |-> [dq EXCEPT !.top = @ + 1], job |-> dq.ring[dq.top % RingSize]]
    ELSE [deque |-> dq, job |-> 0]

\* The step of thread w leaves the pool P, the queue dq of the worker, its
\* own record rec and the log.
PoolCommit(P, dq, w, rec, log) ==
    /\ job_pool' = P
    /\ g_workers' = [g_workers EXCEPT ![1] = dq]
    /\ jthread' = [jthread EXCEPT ![w] = rec]
    /\ jlog' = log
    /\ UNCHANGED <<jsys, g_jobs, g_job_next_free, dequeVars, poolVars, sysVars>>

\* The handle of the job in the slot of Job* job
HandleAt(P, job) == make_handle(job - 1, JobAt(P, job).generation)

\* Thread w runs job_execute(job): the job function, then the counters and
\* job_free
RunJob(w, dq, job, rec, log) ==
    PoolCommit(job_execute(job_pool, job), dq, w, rec,
        [log EXCEPT !.issued = SetPhase(@, job - 1, JobAt(job_pool, job).generation,
                                        "completed")])

\* main: job_create(func, data)
job_create_call ==
    /\ jsys = "pool" /\ jthread[0].pc = "client"
    /\ Len(jlog.issued) < MaxSchedule
    /\ \E r \in {job_create(job_pool)} :
        /\ r.handle # INVALID_JOB_HANDLE
        /\ PoolCommit(r.pool, g_workers[1], 0, jthread[0],
               [jlog EXCEPT !.issued = Append(@, [idx |-> r.handle.idx,
                                gen |-> r.handle.gen, phase |-> "created",
                                parent |-> 0]),
                            !.op = NoLog.op])

\* main: job_create_as_child(parent_handle, func, data)
job_create_as_child_call(parent_handle) ==
    /\ jsys = "pool" /\ jthread[0].pc = "client"
    /\ Len(jlog.issued) < MaxSchedule
    /\ \E r \in {job_create_as_child(job_pool, parent_handle)} :
        PoolCommit(r.pool, g_workers[1], 0, jthread[0],
            [jlog EXCEPT !.issued = IF r.handle = INVALID_JOB_HANDLE THEN @
                                    ELSE Append(@, [idx |-> r.handle.idx,
                                             gen |-> r.handle.gen, phase |-> "created",
                                             parent |-> IssuedAt(parent_handle)]),
                         !.op = [kind |-> "parent", stale |-> Reused(parent_handle),
                                 noop |-> r.parent = 0]])

\* main: job_run(handle); the client runs a job it created once
job_run(handle) ==
    /\ jsys = "pool" /\ jthread[0].pc = "client"
    /\ PhaseOf(handle) = "created" \/ Reused(handle)
    /\ \E job \in {get_job_from_handle(job_pool, handle)} :
       \E log \in {[jlog EXCEPT !.op = [kind |-> "run", stale |-> Reused(handle),
                                        noop |-> job = 0],
                                 !.bottom = IF job = 0 THEN @ ELSE @ \cup {0}]} :
        IF job = 0 THEN PoolCommit(job_pool, g_workers[1], 0, jthread[0], log)
        ELSE \E r1 \in {wsq_push(g_workers[1], job)} :
             \E r2 \in {IF r1.pushed THEN r1 ELSE wsq_push(r1.deque, job)} :
                IF r2.pushed
                THEN PoolCommit(job_pool, r2.deque, 0, jthread[0],
                         [log EXCEPT !.issued = SetPhase(@, handle.idx, handle.gen,
                                                         "queued")])
                ELSE RunJob(0, r2.deque, job, jthread[0], log)

\* main: job_is_complete(handle)
job_is_complete_call(handle) ==
    /\ jsys = "pool" /\ jthread[0].pc = "client"
    /\ \E r \in {job_is_complete(job_pool, handle)} :
        PoolCommit(job_pool, g_workers[1], 0, jthread[0],
            [jlog EXCEPT !.op = [kind |-> "is_complete", stale |-> Reused(handle),
                                 noop |-> r.result /\ r.job = 0]])

\* main: job_wait(handle) up to main_thread_wait
job_wait_pool(handle) ==
    /\ jsys = "pool" /\ jthread[0].pc = "client"
    /\ \E job \in {get_job_from_handle(job_pool, handle)} :
        IF job = 0
        THEN PoolCommit(job_pool, g_workers[1], 0, jthread[0],
                 [jlog EXCEPT !.op = [kind |-> "wait", stale |-> Reused(handle),
                                      noop |-> TRUE],
                              !.wait = [returned |-> TRUE, stale |-> TRUE,
                                        phase |-> PhaseOf(handle)]])
        ELSE PoolCommit(job_pool, g_workers[1], 0,
                 [jthread[0] EXCEPT !.pc = "wait", !.h = handle, !.job = job],
                 [jlog EXCEPT !.op = [kind |-> "wait", stale |-> Reused(handle),
                                      noop |-> FALSE],
                              !.wait = NoLog.wait])

\* main: one round of the loop of main_thread_wait(job)
main_thread_wait ==
    /\ jsys = "pool" /\ jthread[0].pc = "wait"
    /\ LET job == jthread[0].job
           h == jthread[0].h IN
        IF JobAt(job_pool, job).unfinished_jobs > 0
        THEN \E r \in {wsq_steal(g_workers[1])} :
                /\ r.job # 0
                /\ RunJob(0, r.deque, r.job, jthread[0], jlog)
        ELSE PoolCommit(job_pool, g_workers[1], 0,
                 [jthread[0] EXCEPT !.pc = "client", !.h = g_job_none, !.job = 0],
                 [jlog EXCEPT !.wait = [returned |-> TRUE,
                                        stale |-> get_job_from_handle(job_pool, h) = 0,
                                        phase |-> PhaseOf(h)]])

\* scheduler_fiber_func of the worker thread: worker_get_job, job_execute
scheduler_fiber_func ==
    /\ jsys = "pool" /\ jthread[1].pc = "loop"
    /\ \E r1 \in {wsq_pop(g_workers[1])} :
       \E r2 \in {IF r1.job # 0 THEN r1 ELSE wsq_steal(r1.deque)} :
        /\ r2.job # 0
        /\ RunJob(1, r2.deque, r2.job, jthread[1],
                  [jlog EXCEPT !.bottom = @ \cup {1}])

JobPoolNext ==
    \/ job_create_call
    \/ \E h \in Handles : job_create_as_child_call(h)
    \/ \E h \in Handles : job_run(h)
    \/ \E h \in Handles : job_is_complete_call(h)
    \/ \E h \in Handles : job_wait_pool(h)
    \/ main_thread_wait
    \/ scheduler_fiber_func

\* The job systems before the client used them
JobInit ==
    /\ jsys \in {"job", "pool"}
    /\ g_jobs = job_init.g_jobs
    /\ g_job_next_free = job_init.g_job_next_free
    /\ g_workers = job_init.g_workers
    /\ job_pool = job_pool_init
    /\ jthread = [w \in JThreads |->
                    [pc |-> IF w = 0 THEN "client" ELSE "loop", h |-> g_job_none,
                     job |-> 0, ret |-> "loop", free_top |-> MAX_FIBERS_PER_WORKER,
                     fiber |-> FALSE, yielded |-> FALSE]]
    /\ jlog = NoLog

JobIdle ==
    /\ jsys = "none"
    /\ g_jobs = job_init.g_jobs
    /\ g_job_next_free = job_init.g_job_next_free
    /\ g_workers = job_init.g_workers
    /\ job_pool = job_pool_init
    /\ jthread = [w \in JThreads |->
                    [pc |-> "done", h |-> g_job_none, job |-> 0, ret |-> "loop",
                     free_top |-> MAX_FIBERS_PER_WORKER, fiber |-> FALSE,
                     yielded |-> FALSE]]
    /\ jlog = NoLog

\* ------------------------------------------------------------------------
\* wc_pool_create and the wc_pool_destroy it calls when a step fails
\* (thread_pool.c)
\* ------------------------------------------------------------------------
WorkerEntries == 0..CreateWorkers

Res(kind, of) == [kind |-> kind, of |-> of]

PoolAtomics ==
    {"shutdown", "active_workers", "sleeping_workers", "total_tasks_submitted",
     "total_tasks_completed", "total_steal_attempts", "total_steal_successes"}

\* What the constructor acquires after the atomics, in the order of the code:
\* the resources of one stage are created before the stage's failure check.
PoolStages ==
    << {"sleep_mutex"}, {"wake_condition"},
       {"global_queue", "high_priority_queue"}, {"workers"} >>

WorkerFields == <<"active", "local_queue", "thread_arena", "handle">>

NoFail == Res("none", -1)

\* The one acquisition that fails in this run, if any.
FailPoints ==
    {NoFail}
      \cup {Res(k, -1) : k \in PoolAtomics \cup UNION Range(PoolStages)}
      \cup {Res(WorkerFields[f], i) : f \in 1..3, i \in WorkerEntries}
      \cup {Res("handle", i) : i \in WorkerEntries \ {0}}

\* pool->workers comes from wc_aligned_alloc: an entry holds nothing known
\* until the loop of wc_pool_create has memset it.
Uninitialised == [init |-> FALSE, thread |-> "none"]

CtorInit ==
    /\ sys = "create"
    /\ ctor \in {[pc |-> "atomics", fail |-> f, held |-> {}, i |-> 0,
                  workers |-> [i \in WorkerEntries |-> Uninitialised],
                  shutdown |-> FALSE, read_uninit |-> {}, null_deref |-> FALSE,
                  result |-> "none"] : f \in FailPoints}

CtorIdle ==
    ctor = [pc |-> "idle", fail |-> NoFail, held |-> {}, i |-> 0,
            workers |-> [i \in WorkerEntries |-> Uninitialised],
            shutdown |-> FALSE, read_uninit |-> {}, null_deref |-> FALSE,
            result |-> "none"]

CtorCommit(c) ==
    /\ ctor' = c
    /\ UNCHANGED <<dequeVars, poolVars, jobVars, sys, sel, prof, seq, fib>>

Created(kinds, of) == {Res(k, of) : k \in kinds} \ {ctor.fail}

\* wc_pool_create, lines 817-830: the seven atomics, then one check.
wc_pool_create_atomics ==
    /\ sys = "create" /\ ctor.pc = "atomics"
    /\ CtorCommit([ctor EXCEPT
            !.held = @ \cup Created(PoolAtomics, -1),
            !.pc = IF ctor.fail \in {Res(k, -1) : k \in PoolAtomics}
                   THEN "destroy" ELSE "stage",
            !.i = 1])

\* wc_pool_create, lines 833-859: mutex, condition, the two queues, the array.
wc_pool_create_stage ==
    /\ sys = "create" /\ ctor.pc = "stage"
    /\ LET stage == PoolStages[ctor.i]
           failed == ctor.fail \in {Res(k, -1) : k \in stage}
       IN CtorCommit([ctor EXCEPT
            !.held = @ \cup Created(stage, -1),
            !.pc = IF failed THEN "destroy"
                   ELSE IF ctor.i = Len(PoolStages) THEN "worker" ELSE "stage",
            !.i = IF failed \/ ctor.i = Len(PoolStages) THEN 0 ELSE ctor.i + 1])

\* The fields of entry i the loop body creates before it fails or ends.
RECURSIVE FieldsBefore(_, _)
FieldsBefore(i, f) ==
    IF f > Len(WorkerFields) \/ (WorkerFields[f] = "handle" /\ i = 0) THEN {}
    ELSE IF ctor.fail = Res(WorkerFields[f], i) THEN {}
    ELSE {WorkerFields[f]} \cup FieldsBefore(i, f + 1)

\* wc_pool_create, lines 867-905: one turn of the loop over the entries.
wc_pool_create_worker ==
    /\ sys = "create" /\ ctor.pc = "worker"
    /\ LET i == ctor.i
           made == FieldsBefore(i, 1)
           failed == ctor.fail.of = i
       IN CtorCommit([ctor EXCEPT
            !.held = @ \cup {Res(k, i) : k \in made},
            !.workers[i] = [init |-> TRUE,
                            thread |-> IF "handle" \in made THEN "running"
                                       ELSE "none"],
            !.pc = IF failed THEN "destroy"
                   ELSE IF i = CreateWorkers THEN "returned" ELSE "worker",
            !.i = IF failed \/ i = CreateWorkers THEN 0 ELSE i + 1,
            !.result = IF ~failed /\ i = CreateWorkers THEN "pool" ELSE @])

\* worker_thread_main: a started worker leaves its loop once shutdown is set.
worker_thread_main(i) ==
    /\ sys = "create" /\ ctor.workers[i].thread = "running"
    /\ ctor.shutdown
    /\ CtorCommit([ctor EXCEPT !.workers[i].thread = "exited"])

\* What a load through a null pointer or a call on an indeterminate pointer
\* may do.
Undefined == {"goes_on", "crashes"}

\* wc_pool_destroy, lines 918-927, on the partly built pool: store shutdown
\* if the atomic exists, then wc_pool_wake_workers, which loads
\* pool->sleeping_workers whether or not it was created.
destroy_signal ==
    /\ sys = "create" /\ ctor.pc = "destroy"
    /\ LET null == Res("sleeping_workers", -1) \notin ctor.held
       IN \E o \in IF null THEN Undefined ELSE {"goes_on"} :
            CtorCommit([ctor EXCEPT
                !.shutdown = Res("shutdown", -1) \in ctor.held,
                !.null_deref = null,
                !.pc = IF o = "crashes" THEN "crashed"
                       ELSE IF Res("workers", -1) \in ctor.held THEN "join"
                       ELSE "release",
                !.i = 1])

\* wc_pool_destroy, lines 931-949: entry i of the loop from 1 to
\* worker_count - 1. It tests handle, local_queue, thread_arena and active
\* of the entry, joins the thread and frees what the fields point to.
destroy_worker ==
    /\ sys = "create" /\ ctor.pc = "join"
    /\ LET i == ctor.i
           w == ctor.workers[i]
       IN /\ w.thread # "running"
          /\ \E o \in IF w.init THEN {"goes_on"} ELSE Undefined :
                CtorCommit([ctor EXCEPT
                    !.held = {r \in @ : r.of # i},
                    !.workers[i].thread = "none",
                    !.read_uninit = IF w.init THEN @ ELSE @ \cup {i},
                    !.pc = IF o = "crashes" THEN "crashed"
                           ELSE IF i = CreateWorkers THEN "release" ELSE "join",
                    !.i = IF i = CreateWorkers THEN 0 ELSE i + 1])

\* wc_pool_destroy, lines 951-991: entry 0, the array, the queues, the
\* condition, the mutex, the atomics, the pool.
destroy_release ==
    /\ sys = "create" /\ ctor.pc = "release"
    /\ LET array == Res("workers", -1) \in ctor.held
           w == ctor.workers[0]
       IN \E o \in IF array /\ ~w.init THEN Undefined ELSE {"goes_on"} :
            CtorCommit([ctor EXCEPT
                !.held = IF o = "crashes" THEN @ ELSE {},
                !.read_uninit = IF array /\ ~w.init THEN @ \cup {0} ELSE @,
                !.pc = IF o = "crashes" THEN "crashed" ELSE "returned",
                !.result = "NULL"])

CtorNext ==
    \/ wc_pool_create_atomics \/ wc_pool_create_stage \/ wc_pool_create_worker
    \/ \E i \in WorkerEntries : worker_thread_main(i)
    \/ destroy_signal \/ destroy_worker \/ destroy_release

\* ------------------------------------------------------------------------
\* Victim selection (thread_pool.c, fiber.c)
\* ------------------------------------------------------------------------
PoolWorkers(n) == 0..(n - 1)
Nodes(n) == 0..(n - 1)

\* UINT32_MAX as "no node"; the two ways a selection ends without a victim
NoNode == -1
Never == -1
NoVictim == -2

\* wc_random_next(...) % 100: one value on each side of the two thresholds
RandomVals == {0, 69, 70, 94, 95, 99}

\* memory_bandwidth_gbps of a node: none, or one of two estimates
Bandwidths == {0, 1, 2}

\* wc_detect_numa_topology_win32, lines 1204-1258: worker 0 has no handle and
\* goes round-robin; a worker with a handle goes to the node of the calling
\* thread's ideal processor, or round-robin when the OS query fails.
WorkerToNode(count, nodes, ideal, fallback) ==
    [w \in PoolWorkers(MaxPool) |->
        IF w >= count THEN NoNode
        ELSE IF w = 0 \/ w \in fallback THEN w % nodes ELSE ideal]

\* wc_pool_init_numa_topology: the single-node fallback has every worker on
\* node 0 with a bandwidth of 25.
SelInit ==
    /\ sys = "victim"
    /\ sel \in
        {[pc |-> "ready", worker_count |-> n, numa |-> FALSE, node_count |-> 1,
          worker_to_node |-> WorkerToNode(n, 1, 0, {}),
          bandwidth |-> [d \in Nodes(1) |-> 1],
          thief |-> 0, victim |-> NoVictim, by |-> "none",
          round |-> "none", max_attempts |-> 0, attempts |-> 0,
          selections |-> 0, steals |-> 0] : n \in 1..MaxPool}
        \cup UNION {UNION {
            {[pc |-> "ready", worker_count |-> n, numa |-> TRUE,
              node_count |-> k,
              worker_to_node |-> WorkerToNode(n, k, c, f),
              bandwidth |-> b,
              thief |-> 0, victim |-> NoVictim, by |-> "none",
              round |-> "none", max_attempts |-> 0, attempts |-> 0,
              selections |-> 0, steals |-> 0] :
                c \in Nodes(k), f \in SUBSET (1..(n - 1)),
                b \in [Nodes(k) -> Bandwidths]} :
            k \in 1..MaxNodes} : n \in 1..MaxPool}

SelIdle ==
    sel = [pc |-> "idle", worker_count |-> 1, numa |-> FALSE, node_count |-> 1,
           worker_to_node |-> WorkerToNode(1, 1, 0, {}),
           bandwidth |-> [d \in Nodes(1) |-> 1],
           thief |-> 0, victim |-> NoVictim, by |-> "none",
           round |-> "none", max_attempts |-> 0, attempts |-> 0,
           selections |-> 0, steals |-> 0]

SelCommit(s) ==
    /\ sel' = s
    /\ UNCHANGED <<dequeVars, poolVars, jobVars, sys, ctor, prof, seq, fib>>

\* nodes[n].worker_ids and nodes[n].worker_count
worker_ids(n) ==
    {w \in PoolWorkers(sel.worker_count) : sel.worker_to_node[w] = n}

node_worker_count(n) == Cardinality(worker_ids(n))

\* wc_pool_select_random_victim: the values it can return.
wc_pool_select_any_victim(thf) ==
    PoolWorkers(sel.worker_count)

wc_pool_select_random_victim(thf) ==
    IF sel.worker_count <= 1 THEN {thf}
    ELSE PoolWorkers(sel.worker_count) \ {thf}

\* Tier 2, lines 1425-1435: the scan for the remote node of highest bandwidth,
\* from node i on; a later node replaces the best only when strictly higher.
RECURSIVE best_remote_node(_, _, _, _)
best_remote_node(thief_node, i, best, best_bandwidth) ==
    IF i >= sel.node_count THEN best
    ELSE IF i # thief_node /\ node_worker_count(i) > 0
            /\ sel.bandwidth[i] > best_bandwidth
         THEN best_remote_node(thief_node, i + 1, i, sel.bandwidth[i])
         ELSE best_remote_node(thief_node, i + 1, best, best_bandwidth)

\* wc_pool_select_numa_victim with random_val drawn: the values it can
\* return, Never among them when the loop of tier 3 has no node to end on.
wc_pool_select_numa_victim(thf, random_val) ==
    LET thief_node == sel.worker_to_node[thf]
        \* tier 1 returns a local worker other than the thief, or gives up
        \* after worker_count attempts
        tier1 == IF node_worker_count(thief_node) > 1 /\ random_val < 70
                 THEN worker_ids(thief_node) \ {thf} ELSE {}
        best == IF sel.node_count > 1 /\ random_val < 95
                THEN best_remote_node(thief_node, 0, NoNode, 0) ELSE NoNode
        others == {n \in Nodes(sel.node_count) :
                        n # thief_node /\ node_worker_count(n) > 0}
        tier3 == IF others = {} THEN {Never}
                 ELSE UNION {worker_ids(n) : n \in others}
    IN tier1 \cup (IF best # NoNode THEN worker_ids(best) ELSE tier3)

\* wc_pool_select_victim, called by a worker of the pool
wc_pool_select_victim_call(thf) ==
    /\ sys = "victim" /\ sel.pc \in {"ready", "returned"}
    /\ thf < sel.worker_count
    /\ \E random_val \in RandomVals :
       \E v \in IF sel.numa THEN wc_pool_select_numa_victim(thf, random_val)
                ELSE wc_pool_select_random_victim(thf) :
            SelCommit([sel EXCEPT !.thief = thf, !.victim = v, !.by = "pool",
                                  !.pc = IF v = Never THEN "spinning"
                                         ELSE "returned"])

\* fiber.c find_job_for_worker with an empty deque: the index it steals from.
find_job_victim(w) ==
    /\ sys = "victim" /\ sel.pc \in {"ready", "returned"}
    /\ w < sel.worker_count
    /\ \E r \in PoolWorkers(sel.worker_count) :
        LET victim_idx == IF sel.worker_count <= 1 THEN NoVictim
                          ELSE IF r = w THEN (r + 1) % sel.worker_count ELSE r
        IN SelCommit([sel EXCEPT !.thief = w, !.victim = victim_idx,
                                 !.by = "fiber", !.pc = "returned"])

\* wc_pool_steal_work_numa_aware, entry: a worker with nothing to run starts
\* a round of max_attempts = pool->steal_attempts_per_round attempts, or
\* returns NULL at once when work stealing is disabled.  The counters of a
\* round are locals of the call, so one round per behaviour shows them all.
wc_pool_steal_work_numa_aware_call(thf) ==
    /\ sys = "victim" /\ sel.pc = "ready"
    /\ sel.round = "none"
    /\ thf < sel.worker_count
    /\ \E enable_work_stealing \in BOOLEAN, max \in 1..MaxAttempts :
        SelCommit([sel EXCEPT !.thief = thf, !.max_attempts = max,
                              !.attempts = 0, !.selections = 0, !.steals = 0,
                              !.round = IF enable_work_stealing THEN "running"
                                        ELSE "returned"])

\* wc_pool_steal_work_numa_aware, one test of the loop condition and one
\* pass of the body: the selection, the safety checks, and steal_top on the
\* victim's deque, which finds a task or does not.
wc_pool_steal_work_numa_aware_loop ==
    /\ sys = "victim" /\ sel.round = "running" /\ sel.pc # "spinning"
    /\ IF sel.attempts >= sel.max_attempts
       THEN SelCommit([sel EXCEPT !.round = "returned"])
       ELSE \E random_val \in RandomVals :
            \E v \in IF sel.numa
                      THEN wc_pool_select_numa_victim(sel.thief, random_val)
                      ELSE wc_pool_select_random_victim(sel.thief) :
                IF v = Never
                THEN SelCommit([sel EXCEPT !.victim = v, !.by = "pool",
                                           !.pc = "spinning"])
                ELSE IF v >= sel.worker_count \/ v = sel.thief
                THEN SelCommit([sel EXCEPT !.victim = v, !.by = "pool",
                                           !.pc = "returned",
                                           !.selections = @ + 1,
                                           !.attempts = @ + 1])
                ELSE \E stolen_task \in BOOLEAN :
                    SelCommit([sel EXCEPT !.victim = v, !.by = "pool",
                                          !.pc = "returned",
                                          !.selections = @ + 1,
                                          !.steals = @ + 1,
                                          !.attempts = IF stolen_task THEN @
                                                       ELSE @ + 1,
                                          !.round = IF stolen_task
                                                    THEN "returned"
                                                    ELSE "running"])

SelNext ==
    \E w \in PoolWorkers(MaxPool) :
        wc_pool_select_victim_call(w) \/ find_job_victim(w)

\* The steal rounds of the workers of a pool
RoundNext ==
    \/ \E w \in PoolWorkers(MaxPool) : wc_pool_steal_work_numa_aware_call(w)
    \/ wc_pool_steal_work_numa_aware_loop

\* ------------------------------------------------------------------------
\* The profiler (profiler.c)
\* ------------------------------------------------------------------------
Recorders == 1..NumRecorders
Slots == 0..(MAX_PROFILER_EVENTS - 1)

NoEvent == [frame |-> 0, worker_id |-> 0]
RecIdle == [pc |-> "idle", idx |-> 0, frame |-> 0, full |-> FALSE]

\* profiler_init
ProfStart ==
    [g_profiler_event_count |-> 0,
     g_profiler_events |-> [s \in Slots |-> NoEvent],
     frame |-> 1,
     rec |-> [w \in Recorders |-> RecIdle],
     dropped |-> 0,
     outside |-> FALSE, wrote_when_full |-> FALSE, overwrote |-> FALSE,
     read_outside |-> FALSE]

ProfInit == sys = "profiler" /\ prof = ProfStart

ProfIdle == prof = ProfStart

ProfCommit(p) ==
    /\ prof' = p
    /\ UNCHANGED <<dequeVars, poolVars, jobVars, sys, ctor, sel, seq, fib>>

\* profiler_frame_start: the main thread resets the count; the events stay.
profiler_frame_start ==
    /\ sys = "profiler" /\ prof.frame < MaxFrames
    /\ ProfCommit([prof EXCEPT !.g_profiler_event_count = 0, !.frame = @ + 1])

\* The test of line 38 on the index the increment returned.
buffer_overfull(idx) == idx > MAX_PROFILER_EVENTS

buffer_full(idx) == idx >= MAX_PROFILER_EVENTS

\* profiler_record_job, lines 37-40: take an index with the interlocked
\* increment, return if it is past the buffer.
profiler_record_job(w) ==
    /\ sys = "profiler" /\ prof.rec[w].pc = "idle"
    /\ prof.g_profiler_event_count < MaxCount
    /\ LET idx == prof.g_profiler_event_count
       IN ProfCommit([prof EXCEPT
            !.g_profiler_event_count = @ + 1,
            !.rec[w] = IF buffer_full(idx) THEN RecIdle
                       ELSE [pc |-> "write", idx |-> idx, frame |-> prof.frame,
                             full |-> idx >= MAX_PROFILER_EVENTS],
            !.dropped = IF buffer_full(idx) THEN @ + 1 ELSE @])

\* profiler_record_job, lines 41-44: write the event at the index.
profiler_record_write(w) ==
    /\ sys = "profiler" /\ prof.rec[w].pc = "write"
    /\ LET r == prof.rec[w]
           inside == r.idx \in Slots
       IN ProfCommit([prof EXCEPT
            !.g_profiler_events =
                IF inside
                THEN [@ EXCEPT ![r.idx] = [frame |-> r.frame, worker_id |-> w]]
                ELSE @,
            !.outside = @ \/ ~inside,
            !.wrote_when_full = @ \/ r.full,
            !.overwrote = @ \/ (inside /\ r.frame = prof.frame
                                /\ prof.g_profiler_events[r.idx].frame = prof.frame),
            !.rec[w] = RecIdle])

\* profiler_frame_end: the loop of line 59 reads events 0..count-1.
profiler_frame_end ==
    /\ sys = "profiler"
    /\ ProfCommit([prof EXCEPT
            !.read_outside = @ \/ prof.g_profiler_event_count > MAX_PROFILER_EVENTS])

ProfNext ==
    \/ profiler_frame_start \/ profiler_frame_end
    \/ \E w \in Recorders : profiler_record_job(w) \/ profiler_record_write(w)

\* ------------------------------------------------------------------------
\* A deque called by one thread at a time
\* ------------------------------------------------------------------------
\* lock_free_deque_t: deque_init takes tasks from wc_malloc and writes no
\* entry, so an entry never pushed holds whatever the memory held.
Leftover == {Null, MaxCalls}

lf_deque_init(junk) ==
    [top |-> 0, bottom |-> 0, tasks |-> [i \in 0..(DEQUE_CAPACITY - 1) |-> junk]]

lf_deque_push(dq, t) ==
    IF ~ULt(dq.bottom - dq.top, DEQUE_CAPACITY) THEN [deque |-> dq, ok |-> FALSE]
    ELSE [deque |-> [dq EXCEPT !.tasks[dq.bottom % DEQUE_CAPACITY] = t,
                               !.bottom = @ + 1],
          ok |-> TRUE]

\* bottom = load(bottom) - 1 in size_t; top > bottom compared in size_t
lf_deque_pop(dq) ==
    LET bottom == dq.bottom - 1
        top == dq.top
        found == dq.tasks[bottom % DEQUE_CAPACITY] IN
    IF ULt(bottom, top)
    THEN [deque |-> [dq EXCEPT !.bottom = top], ok |-> FALSE, task |-> Null]
    ELSE IF top = bottom
         THEN [deque |-> [dq EXCEPT !.top = top + 1, !.bottom = top + 1],
               ok |-> TRUE, task |-> found]
         ELSE [deque |-> [dq EXCEPT !.bottom = bottom], ok |-> TRUE, task |-> found]

lf_deque_steal(dq) ==
    IF ~ULt(dq.top, dq.bottom) THEN [deque |-> dq, ok |-> FALSE, task |-> Null]
    ELSE [deque |-> [dq EXCEPT !.top = @ + 1], ok |-> TRUE,
          task |-> dq.tasks[dq.top % DEQUE_CAPACITY]]

SeqImpls == {"ring", "wc", "wsq", "lf"}

NoCall == [op |-> "none", before |-> Null, ok |-> FALSE, job |-> Null]
SeqNone == [impl |-> "none", dq |-> Null, calls |-> 0, pushed |-> 0, last |-> NoCall]
SeqIdle == seq = SeqNone

SeqCreate(i, junk) ==
    CASE i = "wc" -> wc_deque_create(QueueCap)
      [] i = "lf" -> lf_deque_init(junk)
      [] OTHER -> deque_init

SeqInit ==
    /\ sys = "deque"
    /\ \E i \in SeqImpls : \E junk \in (IF i = "lf" THEN Leftover ELSE {Null}) :
         seq = [SeqNone EXCEPT !.impl = i, !.dq = SeqCreate(i, junk)]

\* The ring of the deque, the number of its entries, and the entries it
\* holds between top and bottom, oldest first
SeqRing(dq) ==
    IF "buffer" \in DOMAIN dq THEN dq.buffer.elements
    ELSE IF "tasks" \in DOMAIN dq THEN dq.tasks ELSE dq.ring

SeqCapacity(dq) == Cardinality(DOMAIN SeqRing(dq))

SeqHeld(dq) ==
    IF dq.bottom <= dq.top THEN <<>>
    ELSE [k \in 1..(dq.bottom - dq.top) |->
            SeqRing(dq)[(dq.top + k - 1) % SeqCapacity(dq)]]

SeqCommit(op, r, ok, job) ==
    /\ seq' = [seq EXCEPT !.dq = r, !.calls = @ + 1,
                          !.pushed = IF op = "push" THEN @ + 1 ELSE @,
                          !.last = [op |-> op, before |-> seq.dq, ok |-> ok,
                                    job |-> job]]
    /\ UNCHANGED <<dequeVars, poolVars, jobVars, sys, ctor, sel, prof, fib>>

\* deque_push / wc_deque_push_bottom / deque_push_bottom / deque_push
seq_push ==
    /\ sys = "deque" /\ seq.calls < MaxCalls
    /\ LET job == seq.pushed + 1 IN
       CASE seq.impl = "ring" -> SeqCommit("push", deque_push(seq.dq, job), TRUE, job)
         [] seq.impl = "wc" ->
              LET r == wc_deque_push_bottom(seq.dq, job) IN
              SeqCommit("push", r.deque, r.result = "SUCCESS", job)
         [] seq.impl = "wsq" ->
              LET r == wsq_push(seq.dq, job) IN
              SeqCommit("push", r.deque, r.pushed, job)
         [] seq.impl = "lf" ->
              LET r == lf_deque_push(seq.dq, job) IN
              SeqCommit("push", r.deque, r.ok, job)

\* wc_deque_resize after WC_DEQUE_RESIZE_NEEDED: the new array is allocated
\* and swapped in, or the allocation fails and the deque stays as it is
seq_resize ==
    /\ sys = "deque" /\ seq.calls < MaxCalls
    /\ seq.impl = "wc" /\ seq.last.op = "push" /\ ~seq.last.ok
    /\ \E allocated \in BOOLEAN :
         SeqCommit("resize", IF allocated THEN wc_deque_resize(seq.dq) ELSE seq.dq,
                   allocated, Null)

\* deque_pop / wc_deque_pop_bottom / deque_pop_bottom / deque_pop
seq_pop ==
    /\ sys = "deque" /\ seq.calls < MaxCalls
    /\ CASE seq.impl = "ring" ->
              LET r == deque_pop(seq.dq) IN SeqCommit("pop", r.deque, r.job # 0, r.job)
         [] seq.impl = "wc" ->
              LET r == wc_deque_pop_bottom(seq.dq) IN
              SeqCommit("pop", r.deque, r.task # Null, r.task)
         [] seq.impl = "wsq" ->
              LET r == wsq_pop(seq.dq) IN SeqCommit("pop", r.deque, r.job # 0, r.job)
         [] seq.impl = "lf" ->
              LET r == lf_deque_pop(seq.dq) IN SeqCommit("pop", r.deque, r.ok, r.task)

\* deque_steal / wc_deque_steal_top / deque_steal
seq_steal ==
    /\ sys = "deque" /\ seq.calls < MaxCalls
    /\ CASE seq.impl = "ring" ->
              LET r == deque_steal(seq.dq) IN SeqCommit("steal", r.deque, r.job # 0, r.job)
         [] seq.impl = "wc" ->
              LET r == wc_deque_steal_top(seq.dq) IN
              SeqCommit("steal", r.deque, r.task # Null, r.task)
         [] seq.impl = "wsq" ->
              LET r == wsq_steal(seq.dq) IN SeqCommit("steal", r.deque, r.job # 0, r.job)
         [] seq.impl = "lf" ->
              LET r == lf_deque_steal(seq.dq) IN SeqCommit("steal", r.deque, r.ok, r.task)

SeqNext == seq_push \/ seq_resize \/ seq_pop \/ seq_steal

\* ------------------------------------------------------------------------
\* The fibers of one worker (fiber.c), one by one
\* ------------------------------------------------------------------------
Fibers == 0..(FibersPerWorker - 1)
FiberJobs == 1..NumFiberJobs

\* g_this_worker->scheduler_fiber among the contexts of the worker
Scheduler == -1
Contexts == {Scheduler} \cup Fibers
NoFiber == -2

\* What a job function does before it returns: nothing, job_yield(), or
\* job_wait(h) on the handle of one of the jobs
CallYield == 0
Bodies == {<<>>} \cup {<<c>> : c \in {CallYield} \cup FiberJobs}

\* Where a context stands: in the loop of worker_thread_entry ("loop"), in
\* the loop of fiber_trampoline ("tramp"), in a job function called by the
\* trampoline ("body") or by fiber_execute_job itself ("inline"), in
\* fiber_execute_job after SwitchToFiber(fiber) ("exec"), or in the loop of
\* job_wait ("wait")
Frame(kind, job, fiber, rest) ==
    [kind |-> kind, job |-> job, fiber |-> fiber, rest |-> rest]

FibNone ==
    [pc |-> "idle", fibers |-> <<>>, free |-> <<>>, free_top |-> 0,
     cur |-> Scheduler, stack |-> <<>>, ready |-> {}, body |-> <<>>,
     done |-> {}, took |-> <<>>]

FibIdle == fib = FibNone

\* worker_init, and the jobs pushed for the worker
worker_init(body) ==
    [pc |-> "run",
     fibers |-> [f \in Fibers |-> [available |-> TRUE, current_job |-> 0]],
     free |-> [i \in Fibers |-> i],
     free_top |-> FibersPerWorker,
     cur |-> Scheduler,
     stack |-> [c \in Contexts |->
                  IF c = Scheduler THEN <<Frame("loop", 0, NoFiber, <<>>)>>
                  ELSE <<Frame("tramp", 0, NoFiber, <<>>)>>],
     ready |-> FiberJobs,
     body |-> body,
     done |-> {},
     took |-> [j \in FiberJobs |-> NoFiber]]

FibInit ==
    /\ sys = "fiber"
    /\ \E body \in [FiberJobs -> Bodies] : fib = worker_init(body)

FibCommit(F) ==
    /\ fib' = F
    /\ UNCHANGED <<dequeVars, poolVars, jobVars, sys, ctor, sel, prof, seq>>

FibTop(F) == F.stack[F.cur][Len(F.stack[F.cur])]
FibPop(F) == [F EXCEPT !.stack[F.cur] = SubSeq(@, 1, Len(@) - 1)]
FibPush(F, frame) == [F EXCEPT !.stack[F.cur] = Append(@, frame)]
FibSetTop(F, frame) == FibPush(FibPop(F), frame)

\* fiber_yield, called on a fiber: SwitchToFiber(scheduler_fiber).  The
\* scheduler fiber goes on in fiber_execute_job after its SwitchToFiber:
\* it puts the fiber it had switched to back on the free stack when that
\* fiber is available, and returns true.
fiber_yield(F) ==
    Let([F EXCEPT !.cur = Scheduler], LAMBDA S :
    Let(FibTop(S).fiber, LAMBDA fiber_idx :
    FibPop(IF S.fibers[fiber_idx].available
        THEN [S EXCEPT !.free[S.free_top] = fiber_idx, !.free_top = @ + 1]
        ELSE S)))

\* fiber_execute_job with the job found: on the fiber on top of the free
\* stack, or in place when the free stack is empty
fiber_execute_job_found(F, job) ==
    Let([F EXCEPT !.ready = @ \ {job}], LAMBDA G :
    IF G.free_top > 0
    THEN Let(G.free[G.free_top - 1], LAMBDA fiber_idx :
         [FibPush(G, Frame("exec", job, fiber_idx, <<>>)) EXCEPT
              !.free_top = @ - 1,
              !.fibers[fiber_idx] = [available |-> FALSE, current_job |-> job],
              !.took[job] = fiber_idx,
              !.cur = fiber_idx])
    ELSE FibPush(G, Frame("inline", job, NoFiber, G.body[job])))

\* job_yield: fiber_yield on a fiber; on the scheduler fiber
\* SwitchToFiber to the running fiber, which returns or loses the thread
job_yield_from(F) ==
    IF F.cur = Scheduler
    THEN {IF outcome = "lost" THEN [F EXCEPT !.pc = "lost"] ELSE F :
             outcome \in SwitchToSelf}
    ELSE {fiber_yield(F)}

\* worker_thread_entry: one round of the loop that finds a job
worker_loop ==
    /\ sys = "fiber" /\ fib.pc = "run" /\ FibTop(fib).kind = "loop"
    /\ \E job \in fib.ready : FibCommit(fiber_execute_job_found(fib, job))

\* fiber_trampoline: one pass of its loop on the fiber switched to
fiber_trampoline_pass ==
    /\ sys = "fiber" /\ fib.pc = "run" /\ FibTop(fib).kind = "tramp"
    /\ \E job \in {fib.fibers[fib.cur].current_job} :
       IF job # 0
       THEN FibCommit(FibPush(fib, Frame("body", job, NoFiber, fib.body[job])))
       ELSE FibCommit(fiber_yield(
                [fib EXCEPT !.fibers[fib.cur].available = TRUE]))

\* The job function returns: finish_callback, and on a fiber the rest of
\* the pass of fiber_trampoline
job_return ==
    /\ sys = "fiber" /\ fib.pc = "run"
    /\ FibTop(fib).kind \in {"body", "inline"} /\ FibTop(fib).rest = <<>>
    /\ \E F \in {[FibPop(fib) EXCEPT !.done = @ \cup {FibTop(fib).job}]} :
       IF FibTop(fib).kind = "inline" THEN FibCommit(F)
       ELSE FibCommit(fiber_yield(
                [F EXCEPT !.fibers[F.cur] =
                              [available |-> TRUE, current_job |-> 0]]))

\* The job function calls job_yield()
job_yield_call ==
    /\ sys = "fiber" /\ fib.pc = "run"
    /\ FibTop(fib).kind \in {"body", "inline"} /\ FibTop(fib).rest # <<>>
    /\ Head(FibTop(fib).rest) = CallYield
    /\ \E F \in job_yield_from(
                FibSetTop(fib, [FibTop(fib) EXCEPT !.rest = Tail(@)])) :
        FibCommit(F)

\* The job function calls job_wait(h)
job_wait_call ==
    /\ sys = "fiber" /\ fib.pc = "run"
    /\ FibTop(fib).kind \in {"body", "inline"} /\ FibTop(fib).rest # <<>>
    /\ Head(FibTop(fib).rest) # CallYield
    /\ FibCommit(FibPush(FibSetTop(fib, [FibTop(fib) EXCEPT !.rest = Tail(@)]),
                      Frame("wait", Head(FibTop(fib).rest), NoFiber, <<>>)))

\* job_wait: one round of its loop, in a job function
job_wait_round ==
    /\ sys = "fiber" /\ fib.pc = "run" /\ FibTop(fib).kind = "wait"
    /\ IF FibTop(fib).job \in fib.done THEN FibCommit(FibPop(fib))
       ELSE IF fib.ready # {}
       THEN \E job \in fib.ready : FibCommit(fiber_execute_job_found(fib, job))
       ELSE \E F \in job_yield_from(fib) : FibCommit(F)

FibNext ==
    \/ worker_loop
    \/ fiber_trampoline_pass
    \/ job_return
    \/ job_yield_call
    \/ job_wait_call
    \/ job_wait_round

SysIdle == sys = "none" /\ CtorIdle /\ SelIdle /\ ProfIdle /\ SeqIdle /\ FibIdle

\* ------------------------------------------------------------------------
\* Specifications
\* ------------------------------------------------------------------------
\* The deques on their own
DequeInit ==
    /\ impl \in {"ring", "wc", "wsq"}
    /\ deque = EmptyDeque
    /\ own = OwnReturn
    /\ thief = [th \in Thieves |-> ThiefReturn]
    /\ hist = [pushed |-> 0, pops |-> 0, steals |-> [th \in Thieves |-> 0],
               returned |-> [e \in Elems |-> 0], drained |-> FALSE, full |-> FALSE]
    /\ race = NoRace

DequeIdle ==
    /\ impl = "none"
    /\ deque = EmptyDeque
    /\ own = OwnReturn
    /\ thief = [th \in Thieves |-> ThiefReturn]
    /\ hist = [pushed |-> 0, pops |-> 0, steals |-> [th \in Thieves |-> 0],
               returned |-> [e \in Elems |-> 0], drained |-> FALSE, full |-> FALSE]
    /\ race = NoRace

DequeNext == RingNext \/ WcNext \/ WsqNext

InitDeque == DequeInit /\ PoolIdle /\ JobIdle /\ SysIdle

SpecDeque == InitDeque /\ [][DequeNext]_vars

\* The task system on the pool
InitPool == PoolInit /\ DequeIdle /\ JobIdle /\ SysIdle

SpecPool == InitPool /\ [][PoolNext]_vars

\* Every thread that can take a step eventually takes one.
ThreadNext(w) ==
    \/ w = Main /\ (main_submit \/ main_group_submit \/ wc_task_wait_all)
    \/ w = Main /\ (wc_pool_destroy \/ wc_pool_destroy_wake \/ wc_pool_destroy_join)
    \/ worker_pop_local(w) \/ worker_steal(w) \/ worker_global(w)
    \/ wc_pool_worker_sleep(w) \/ worker_sleep_check(w) \/ worker_wake(w)
    \/ worker_exit(w)
    \/ task_body(w) \/ wc_task_wait(w) \/ task_finish(w) \/ task_complete(w)

SpecPoolFair ==
    InitPool /\ [][PoolNext]_vars
    /\ \A w \in Threads : WF_vars(ThreadNext(w))

\* The pool under a caller that submits and does not wait
InitPoolLate == LateInit /\ DequeIdle /\ JobIdle /\ SysIdle

LateNext ==
    \/ main_submit
    \/ \E w \in Threads : worker_sleep_check(w)
    \/ \E w \in Threads : worker_pop_local(w)
    \/ \E w \in Threads : worker_steal(w)
    \/ \E w \in Threads : worker_global(w)
    \/ \E w \in Threads : wc_pool_worker_sleep(w)
    \/ \E w \in Threads : worker_wake(w)
    \/ \E w \in Threads : task_body(w)
    \/ \E w \in Threads : task_finish(w)
    \/ \E w \in Threads : task_complete(w)

SpecPoolLate == InitPoolLate /\ [][LateNext]_vars

\* The pool under a caller that adds a dependency on a submitted task
InitPoolLink == LinkInit /\ DequeIdle /\ JobIdle /\ SysIdle

LinkNext ==
    \/ main_submit
    \/ wc_task_add_dependency_append
    \/ wc_task_add_dependency_increment
    \/ wc_task_wait_all
    \/ \E w \in Threads : worker_sleep_check(w)
    \/ \E w \in Threads : worker_pop_local(w)
    \/ \E w \in Threads : worker_steal(w)
    \/ \E w \in Threads : worker_global(w)
    \/ \E w \in Threads : wc_pool_worker_sleep(w)
    \/ \E w \in Threads : worker_wake(w)
    \/ \E w \in Threads : task_body(w)
    \/ \E w \in Threads : task_finish(w)
    \/ \E w \in Threads : task_complete(w)

SpecPoolLink == InitPoolLink /\ [][LinkNext]_vars

\* The pool under a caller that waits for a group and destroys it
FrameInit == PoolStart(FramePrograms)

InitPoolFrame == FrameInit /\ DequeIdle /\ JobIdle /\ SysIdle

FrameNext ==
    \/ main_group_submit
    \/ wc_task_group_wait
    \/ wc_task_group_destroy
    \/ \E w \in Threads : worker_sleep_check(w)
    \/ \E w \in Threads : worker_pop_local(w)
    \/ \E w \in Threads : worker_steal(w)
    \/ \E w \in Threads : worker_global(w)
    \/ \E w \in Threads : wc_pool_worker_sleep(w)
    \/ \E w \in Threads : worker_wake(w)
    \/ \E w \in Threads : task_body(w)
    \/ \E w \in Threads : task_finish(w)
    \/ \E w \in Threads : task_complete_remaining(w)
    \/ \E w \in Threads : task_complete_group(w)

SpecPoolFrame == InitPoolFrame /\ [][FrameNext]_vars

\* Construction, victim selection and the profiler
SysInit ==
    \/ CtorInit /\ SelIdle /\ ProfIdle /\ SeqIdle /\ FibIdle
    \/ SelInit /\ CtorIdle /\ ProfIdle /\ SeqIdle /\ FibIdle
    \/ ProfInit /\ CtorIdle /\ SelIdle /\ SeqIdle /\ FibIdle

SysNext == CtorNext \/ SelNext \/ ProfNext

\* A deque called by one thread at a time
InitSeq == SeqInit /\ CtorIdle /\ SelIdle /\ ProfIdle /\ FibIdle
               /\ DequeIdle /\ PoolIdle /\ JobIdle

SpecSeq == InitSeq /\ [][SeqNext]_vars

\* The fibers of one worker
InitFiber == FibInit /\ CtorIdle /\ SelIdle /\ ProfIdle /\ SeqIdle
                 /\ DequeIdle /\ PoolIdle /\ JobIdle

SpecFiber == InitFiber /\ [][FibNext]_vars

InitSys == SysInit /\ DequeIdle /\ PoolIdle /\ JobIdle

SpecSys == InitSys /\ [][SysNext]_vars

\* Steal rounds on every topology; a worker in a round goes on through it.
InitRound == SelInit /\ CtorIdle /\ ProfIdle /\ SeqIdle /\ FibIdle
                 /\ DequeIdle /\ PoolIdle /\ JobIdle

SpecRound == InitRound /\ [][RoundNext]_vars

SpecRoundFair == SpecRound /\ WF_vars(wc_pool_steal_work_numa_aware_loop)

\* The job systems
JobSystemNext == JobNext \/ JobPoolNext

InitJob == JobInit /\ DequeIdle /\ PoolIdle /\ SysIdle

\* job.c with a table wide enough for a job with more than WC_MAX_CHILDREN
\* dependents: the client schedules a job, then jobs after it
WideInit ==
    /\ jsys = "wide"
    /\ g_jobs = [i \in 0..(WideJobs - 1) |-> job_init.g_jobs[0]]
    /\ g_job_next_free = job_init.g_job_next_free
    /\ g_workers = job_init.g_workers
    /\ job_pool = job_pool_init
    /\ jthread = [w \in JThreads |->
                    [pc |-> IF w = 0 THEN "client" ELSE "loop", h |-> g_job_none,
                     job |-> 0, ret |-> "loop", free_top |-> MAX_FIBERS_PER_WORKER,
                     fiber |-> FALSE, yielded |-> FALSE]]
    /\ jlog = NoLog

WideAfter ==
    IF jlog.issued = <<>> THEN {g_job_none}
    ELSE {make_handle(jlog.issued[1].idx, jlog.issued[1].gen)}

WideNext ==
    \/ \E after \in WideAfter : job_schedule_call(after)
    \/ worker_thread_entry
    \/ \E w \in JThreads : fiber_trampoline(w)

InitJobWide == WideInit /\ DequeIdle /\ PoolIdle /\ SysIdle

SpecJobWide == InitJobWide /\ [][WideNext]_vars

SpecJob == InitJob /\ [][JobSystemNext]_vars

\* The worker thread keeps running its loop; the main thread keeps running
\* what it is in the middle of.
JobThreadNext(w) ==
    \/ w = 0 /\ (job_wait \/ main_thread_wait)
    \/ w = 1 /\ (worker_thread_entry \/ scheduler_fiber_func)
    \/ fiber_trampoline(w) \/ job_yield(w)

SpecJobFair ==
    InitJob /\ [][JobSystemNext]_vars
    /\ \A w \in JThreads : WF_vars(JobThreadNext(w))

\* ------------------------------------------------------------------------
\* Properties of the deques
\* ------------------------------------------------------------------------
NoDuplicate == \A e \in Elems : hist.returned[e] <= 1

NoLoss ==
    (hist.drained /\ AllIdle) => \A e \in 1..hist.pushed : hist.returned[e] >= 1

\* C4: on a deque holding exactly one element, when the owner's pop runs
\* concurrently with one or more steals, exactly one of the callers receives
\* the element and every other caller receives nothing.
SingleElementRace ==
    (RaceDone /\ Owner \in race.joined /\ race.joined \cap Thieves # {})
        => (race.got = 1 /\ ~race.other)

\* A decided race on the wc_deque which the owner's pop and a steal of every
\* thief joined.
RaceDecided ==
    /\ impl = "wc" /\ RaceDone /\ race.joined = Callers /\ race.got = 1

\* C5: every job pushed is returned by exactly one pop or steal. A job is
\* lost when the deque has been observed empty by the owner with no call in
\* progress and the job was never returned.
ExactlyOnce == NoDuplicate /\ NoLoss

\* ------------------------------------------------------------------------
\* Properties of the task system
\* ------------------------------------------------------------------------

\* The tasks the program submits, directly or through a dependency, the
\* group continuation or the body of another task.
Submitted ==
    Range(prog.submit) \cup Range(prog.members)
        \cup {e[2] : e \in Range(prog.edges)}
        \cup (IF prog.continuation = Null THEN {} ELSE {prog.continuation})
        \cup (IF prog.waits = {} THEN {} ELSE {prog.target})

WaitAllReturned == thread[Main].pc = "done"

\* C1: once wc_task_wait_all on the leaves has returned, the body of every
\* submitted task has been executed exactly once.
NoLostWork ==
    WaitAllReturned => \A t \in Submitted \ prog.coop : trace.started[t] = 1

\* C2: for every edge (P -> D) the body of D does not start before the body
\* of P has returned.
DependencyOrder ==
    \A e \in Range(prog.edges) : trace.started[e[2]] > 0 => trace.finished[e[1]]

AllExecuted == \A t \in Submitted : trace.started[t] >= 1

\* The tasks a pop or a steal on the queue can still return: the elements at
\* the indices from top up to bottom, compared as size_t.
Visible(dq) ==
    LET slots == IF dq.top >= 0 /\ dq.bottom >= 0
                 THEN {Slot(i, dq.buffer.capacity) : i \in dq.top..(dq.bottom - 1)}
                 ELSE IF ULt(dq.top, dq.bottom)
                      THEN 0..(dq.buffer.capacity - 1) ELSE {} IN
    {dq.buffer.elements[i] : i \in slots} \ {Null}

InReach == Visible(global_queue) \cup UNION {Visible(local_queue[w]) : w \in Threads}

\* The exploration stopped a thread that the program would let run: a worker
\* out of idle rounds while a task is in reach, a task at its last run, or a
\* thread at the deepest nesting.
BoundReached ==
    \/ \E w \in Threads \ {Main} :
           thread[w].pc = "loop" /\ thread[w].spins >= prog.rounds /\ InReach # {}
    \/ \E t \in Tasks : trace.started[t] >= MaxRuns
    \/ \E w \in Threads : Len(thread[w].stack) >= MaxDepth

\* C3: with every thread scheduled fairly, every submitted task is eventually
\* executed and wc_task_wait_all returns, in every program that calls it.
Converges == <>((WaitAllReturned /\ AllExecuted) \/ BoundReached \/ prog.destroy)

\* C8: the continuation of the group runs at most once and only after the
\* body of every member has returned.
GroupClosure ==
    prog.continuation # Null =>
        /\ trace.started[prog.continuation] <= 1
        /\ trace.started[prog.continuation] >= 1 =>
               \A m \in Range(prog.members) : trace.finished[m]

\* Thread w is inside the wc_task_wait of a task body and the task waited
\* for has not completed.
Waiting(w) ==
    /\ thread[w].stack # <<>>
    /\ thread[w].stack[1].task \in prog.waits
    /\ Len(thread[w].stack) > 1 \/ thread[w].pc = "wait"
    /\ task[prog.target].state # "COMPLETED"

ReadyWork == \E t \in InReach : task[t].state = "READY"

\* wc_pool_execute_task counted a task on workers[w]
Advance(w) == workers'[w].tasks_executed > workers[w].tasks_executed

\* Thread w returns from the execution of a task it found inside the
\* wc_task_wait of a task body.
RanInsideWait(w) ==
    /\ Waiting(w) /\ Len(thread[w].stack) > 1
    /\ Len(thread'[w].stack) < Len(thread[w].stack)

\* C9: a thread inside the wc_task_wait of a task body, waiting for a task
\* that has not completed, keeps executing ready tasks and the executed-task
\* counter of its worker advances: every task it executes during the wait is
\* counted on its worker, and while it stays in the wait with ready work in
\* reach the counter advances again and again.
WaitKeepsWorking ==
    /\ [][\A w \in Threads : RanInsideWait(w) => Advance(w)]_vars
    /\ \A w \in Threads :
          <>[](Waiting(w) /\ ReadyWork /\ ~BoundReached) => []<><<Advance(w)>>_vars

\* C10: a cooperative task is marked COMPLETED and its completion step runs
\* once, and only after its function returned WC_TASK_COMPLETE.
CooperativeCompletion ==
    \A t \in prog.coop :
        /\ trace.completions[t] <= 1
        /\ trace.completions[t] >= 1 => trace.finished[t]
        /\ task[t].state = "COMPLETED" => trace.finished[t]

\* ------------------------------------------------------------------------
\* Properties of the job systems
\* ------------------------------------------------------------------------
\* C6: an operation on a handle whose job has completed and whose slot has
\* been given to another job behaves as on a completed job: it returns at
\* once and neither reads nor waits on nor modifies the job now in the slot.
HandleSafety == jlog.op.stale => jlog.op.noop

\* job_wait was called on the JobPool with the handle of a completed job
\* whose slot holds another job.
StaleWait == jsys = "pool" /\ jlog.op.kind = "wait" /\ jlog.op.stale

\* C7: job_wait returns only if the handle is stale or the job it names has
\* completed.
WaitReturnsCompleted ==
    (jsys = "job" /\ jlog.wait.returned)
        => (jlog.wait.stale \/ jlog.wait.phase = "completed")

\* ------------------------------------------------------------------------
\* Yield
\* ------------------------------------------------------------------------
JobYielded(i) == i <= Len(jlog.issued) /\ jlog.issued[i].phase = "suspended"
JobCompleted(i) == i <= Len(jlog.issued) /\ jlog.issued[i].phase = "completed"

\* C11: a job that called yield from inside its body is eventually resumed
\* and runs to completion; it is never left suspended forever.
YieldResumes == \A i \in 1..MaxSchedule : JobYielded(i) ~> JobCompleted(i)

\* ------------------------------------------------------------------------
\* Exhaustion of the job table
\* ------------------------------------------------------------------------
\* The job in slot s that has not finished, if there is one
LiveIn(s) ==
    {i \in 1..Len(jlog.issued) :
        /\ jlog.issued[i].idx = s /\ jlog.issued[i].gen = g_jobs[s].generation
        /\ jlog.issued[i].phase # "completed"}

TableFull == jsys = "job" /\ \A s \in JSlots \ {0} : LiveIn(s) # {}

ScheduleReturned == Len(jlog'.issued) = Len(jlog.issued) + 1

\* C12: when every slot of the job table is held by a live job, schedule
\* returns the none handle and leaves every slot as it is.
ExhaustedSchedule ==
    [][(TableFull /\ ScheduleReturned) =>
         /\ jlog'.issued[Len(jlog'.issued)].idx = g_job_none.idx
         /\ g_jobs' = g_jobs]_vars

\* ------------------------------------------------------------------------
\* Submission
\* ------------------------------------------------------------------------
\* The indices of the queue a pop or a steal can still return
Window(dq) ==
    IF dq.top >= 0 /\ dq.bottom >= 0 THEN dq.top..(dq.bottom - 1)
    ELSE IF ULt(dq.top, dq.bottom) THEN 0..(dq.buffer.capacity - 1) ELSE {}

EntriesIn(dq, t) == Cardinality({i \in Window(dq) : LoadElem(dq.buffer, i) = t})

RECURSIVE SumEntries(_, _)
SumEntries(ws, t) ==
    IF ws = {} THEN 0
    ELSE LET w == CHOOSE x \in ws : TRUE IN
         EntriesIn(local_queue[w], t) + SumEntries(ws \ {w}, t)

\* The queue entries that hold task t
Entries(t) == EntriesIn(global_queue, t) + SumEntries(Threads, t)

\* C13: after a wc_pool_submit_task that returned 0 the task is in exactly
\* one queue entry, after one that returned -1 it is in none.
SubmitOutcome ==
    last_submit.task # Null =>
        Entries(last_submit.task) = (IF last_submit.rc = 0 THEN 1 ELSE 0)

\* ------------------------------------------------------------------------
\* Hierarchical spawn
\* ------------------------------------------------------------------------
\* main has called wc_task_submit on task t
HasSubmitted(t) ==
    \E i \in 1..Len(prog.submit) : prog.submit[i] = t /\ i < thread[Main].next

\* C14: the parent is a prerequisite of the child made by wc_task_spawn_child:
\* the body of the child does not start before the body of the parent has
\* returned, and the parent does not wait for the child: once submitted it
\* is ready to run.
SpawnOrder ==
    \A e \in Range(prog.spawn) :
        /\ trace.started[e[2]] > 0 => trace.finished[e[1]]
        /\ HasSubmitted(e[1]) => task[e[1]].state # "PENDING"

\* ------------------------------------------------------------------------
\* Shutdown
\* ------------------------------------------------------------------------
QuitSignalled == thread[Main].pc = "join"
Joined == thread[Main].pc = "destroyed"

\* C15: once wc_pool_destroy has set shutdown and broadcast the wake
\* condition, every worker thread leaves its loop and wc_pool_destroy joins it.
ShutdownTerminates == QuitSignalled ~> (Joined \/ BoundReached)

\* ------------------------------------------------------------------------
\* Pool statistics
\* ------------------------------------------------------------------------
\* C17: once wc_task_wait_all has returned for the tasks the program
\* submitted, total_tasks_submitted equals total_tasks_completed.
CountersAgree ==
    (WaitAllReturned /\ \A t \in Submitted : task[t].state = "COMPLETED")
        => pool.total_tasks_submitted = pool.total_tasks_completed

\* ------------------------------------------------------------------------
\* Properties of the construction of the pool
\* ------------------------------------------------------------------------
InitFailed == sys = "create" /\ ctor.pc = "returned" /\ ctor.result = "NULL"

\* C16: when a step of the initialisation fails, the teardown releases all it
\* had acquired, stops and joins the workers already started, and reads or
\* frees no worker entry that was never initialised (nor any pool field that
\* was never created).
FailedInitClean ==
    /\ ctor.read_uninit = {}
    /\ ~ctor.null_deref
    /\ InitFailed =>
         /\ ctor.held = {}
         /\ \A i \in WorkerEntries : ctor.workers[i].thread # "running"

\* ------------------------------------------------------------------------
\* Properties of victim selection
\* ------------------------------------------------------------------------
Selected == sys = "victim" /\ sel.pc = "returned" /\ sel.victim # NoVictim

DropOnOverflow ==
    /\ ~prof.outside
    /\ ~prof.wrote_when_full
    /\ ~prof.overwrote

\* Every slot holds an event of the current frame and a further call was
\* dropped.
DroppedAtCapacity ==
    /\ sys = "profiler"
    /\ prof.dropped > 0
    /\ prof.g_profiler_event_count > MAX_PROFILER_EVENTS
    /\ \A s \in Slots : prof.g_profiler_events[s].frame = prof.frame

\* ------------------------------------------------------------------------
\* Sleeping workers and queued work
\* ------------------------------------------------------------------------
AllAsleep == \A w \in Threads \ {Main} : thread[w].pc = "asleep"

RunnableQueued == \E t \in Tasks : task[t].state = "READY" /\ Entries(t) > 0

\* C20: in no reachable state is every worker thread blocked on the wake
\* condition while a runnable task sits in a local deque or in the global
\* queue.
NoLostWakeup == ~(AllAsleep /\ RunnableQueued)

\* ------------------------------------------------------------------------
\* Release of dependents
\* ------------------------------------------------------------------------
Dependents == {e[2] : e \in Range(prog.edges)}

Prerequisites(d) == {e[1] : e \in {x \in Range(prog.edges) : x[2] = d}}

\* C21: every dependent task is made READY and handed to wc_pool_submit_task
\* at most once, and only by a completion that found every prerequisite
\* completed, whether the prerequisites complete one after the other or
\* while the dependent is being submitted.
ReleasedOnce ==
    \A d \in Dependents :
        /\ enqueued[d] <= 1
        /\ enqueued[d] >= 1 => \A p \in Prerequisites(d) : trace.completions[p] >= 1

\* ------------------------------------------------------------------------
\* A dependency added while the prerequisite runs
\* ------------------------------------------------------------------------
\* Every task the dependent of the added dependency waits for
LinkPrerequisites == Prerequisites(prog.link[2]) \cup {prog.link[1]}

\* main has returned from wc_task_add_dependency and no completion is under way
LinkSettled ==
    /\ Len(task[prog.link[1]].outgoing_deps) > 0
    /\ thread[Main].pc \in {"submit", "wait_all", "done"}
    /\ \A w \in Threads : thread[w].pc # "complete"

\* C22: when the prerequisite completes while wc_task_add_dependency is
\* between the append to outgoing_deps and the increment of incoming_deps,
\* incoming_deps of the dependent never drops below zero, the dependent is
\* not handed to the pool before every prerequisite completed, and it is
\* handed to the pool once they all have.
LinkMatched ==
    prog.link # <<>> =>
        LET d == prog.link[2] IN
        /\ task[d].incoming_deps >= 0
        /\ enqueued[d] >= 1 => \A p \in LinkPrerequisites : trace.completions[p] >= 1
        /\ (LinkSettled /\ \A p \in LinkPrerequisites : trace.completions[p] >= 1)
               => (enqueued[d] >= 1 \/ thread[Main].pc = "submit")


\* ------------------------------------------------------------------------
\* Claims on the deque called by one thread at a time
\* ------------------------------------------------------------------------
SeqPopOnEmpty == seq.last.op = "pop" /\ seq.last.before.top = seq.last.before.bottom

\* C23: pop_bottom called on an empty deque (top = bottom, whatever the
\* index value, top = bottom = 0 included) returns none and leaves the deque
\* empty with bottom = top.
PopEmptyIsNone ==
    SeqPopOnEmpty =>
        /\ ~seq.last.ok
        /\ seq.dq.bottom = seq.dq.top


\* C26: the bottom index of a worker's deque is written by that worker's
\* thread only: no other thread runs push_bottom or pop_bottom on it.
BottomOwner == jsys = "pool" => jlog.bottom \subseteq {1}

SeqPushOnFull ==
    /\ seq.last.op = "push"
    /\ seq.last.before.bottom - seq.last.before.top = SeqCapacity(seq.last.before)

\* C25: push_bottom on a deque that already holds capacity entries fails
\* with Full and leaves the ring and the indices as they were: no entry
\* that was not yet popped or stolen is overwritten.
PushOnFullFails ==
    SeqPushOnFull =>
        /\ ~seq.last.ok
        /\ seq.dq = seq.last.before
        /\ SeqHeld(seq.dq) = SeqHeld(seq.last.before)

\* ------------------------------------------------------------------------
\* Claims on the indices of the deques
\* ------------------------------------------------------------------------
PopInProgress == own.pc \in {"pop_top", "pop_cas", "pop_restore"}

\* C24: whenever no pop_bottom is in progress, top <= bottom <= top +
\* capacity (compared as the index type compares); so after pop_bottom took
\* the last element or lost it to a thief the deque is left with bottom = top.
IndicesInRange ==
    (impl # "none" /\ ~PopInProgress) =>
        /\ ULe(deque.top, deque.bottom)
        /\ ULe(deque.bottom - deque.top, Live(deque).capacity)


\* ------------------------------------------------------------------------
\* Claims on the state of a task
\* ------------------------------------------------------------------------
\* C27: every task a local deque or the global queue holds is READY with
\* incoming_deps 0: no task becomes RUNNING or COMPLETED while a reference
\* to it is still queued.
QueuedAreReady ==
    \A t \in InReach : task[t].state = "READY" /\ task[t].incoming_deps = 0


Backwards(t) ==
    \/ task[t].state = "RUNNING" /\ task'[t].state = "PENDING"
    \/ task[t].state = "COMPLETED" /\ task'[t].state \in {"READY", "RUNNING"}
    \/ task[t].state = "RUNNING" /\ task'[t].state = "READY" /\ t \notin prog.coop

\* C28: the state of a task never moves backwards: a RUNNING task does not
\* become PENDING, a COMPLETED task never becomes READY or RUNNING, and only
\* a cooperative task goes from RUNNING back to READY.
StateForward == [][\A t \in Tasks : ~Backwards(t)]_vars


\* ------------------------------------------------------------------------
\* Claims on the slots of the job systems
\* ------------------------------------------------------------------------
JobLive(i) == jlog.issued[i].phase # "completed"

\* C29: a slot is handed out only while no live job holds it: no two live
\* jobs have the same slot, and so no two live jobs the same handle value.
OneJobPerSlot ==
    \A i, j \in 1..Len(jlog.issued) :
        (i < j /\ jlog.issued[i].idx = jlog.issued[j].idx)
            => ~(JobLive(i) /\ JobLive(j))


\* ------------------------------------------------------------------------
\* Claims on the task group
\* ------------------------------------------------------------------------
Uncompleted == {m \in Range(prog.members) : trace.completions[m] = 0}

\* C30: remaining_tasks of the group equals the number of its members whose
\* completion has not been handled: one decrement per member, never below
\* zero, zero exactly when the last member has completed.
RemainingCounts ==
    prog.members # <<>> => group.remaining_tasks = Cardinality(Uncompleted)


\* ------------------------------------------------------------------------
\* Claims on the wake of sleeping workers
\* ------------------------------------------------------------------------
\* C31: every wc_pool_submit_task that returned 0, on a local deque as on
\* the global queue, went through wc_pool_wake_workers, which broadcasts
\* the wake condition holding sleep_mutex.
SubmitWakes ==
    (last_submit.task # Null /\ last_submit.rc = 0) => last_submit.woke


\* ------------------------------------------------------------------------
\* Claims on the dependencies of job.c
\* ------------------------------------------------------------------------
\* Job i was scheduled with a valid `after` handle and the job the handle
\* named has completed.
AfterCompleted(i) ==
    /\ jsys = "job" /\ i <= Len(jlog.issued)
    /\ jlog.issued[i].after # 0
    /\ jlog.issued[jlog.issued[i].after].phase = "completed"

\* C32: a job scheduled with a valid `after` handle is eventually released
\* and executed once the job `after` names has completed, whether that job
\* completed before or after job_schedule linked the two.
AfterReleased ==
    \A i \in 1..MaxSchedule :
        AfterCompleted(i) ~> (i <= Len(jlog.issued) /\ jlog.issued[i].phase # "pending")


\* Job i was scheduled with the handle of a job that had not completed, and
\* that job has not completed yet.
AfterLive(i) ==
    /\ jlog.issued[i].after # 0 /\ ~jlog.issued[i].late
    /\ jlog.issued[jlog.issued[i].after].phase # "completed"

\* C33: a job scheduled after a live job, however many jobs depend on that
\* job already, is recorded as its dependent and stays pending until it has
\* completed.
DependencyKept ==
    jsys = "wide" =>
        \A i \in 1..Len(jlog.issued) :
            AfterLive(i) => (jlog.issued[i].linked /\ jlog.issued[i].phase = "pending")


\* ------------------------------------------------------------------------
\* Claims on the lifetime of the group
\* ------------------------------------------------------------------------
GroupWaitReturned == prog.frame /\ thread[Main].pc \in {"group_destroy", "done"}

\* C34: once wc_task_group_wait has returned no worker reads or writes the
\* group again: no worker is still between the decrement of remaining_tasks
\* and its reads of the group when the caller may destroy the group.
GroupQuiet ==
    GroupWaitReturned =>
        \A w \in Threads \ {Main} : thread[w].pc # "group_complete"


\* ------------------------------------------------------------------------
\* Claims on the end of a victim selection
\* ------------------------------------------------------------------------
\* C35: a victim selection returns for every topology: no call of
\* wc_pool_select_victim is left in a loop that has no value to end on.
SelectionReturns == sys = "victim" => sel.pc # "spinning"

\* ------------------------------------------------------------------------
\* Claims on the steal round
\* ------------------------------------------------------------------------
\* A round never selects or steals more often than max_attempts.
RoundBounded ==
    sys = "victim" =>
        /\ sel.selections <= sel.max_attempts
        /\ sel.steals <= sel.max_attempts

\* C36: a steal round, after at most steal_attempts_per_round selections and
\* steal_top attempts, returns to the worker loop, whether or not an
\* attempt succeeds.
RoundReturns ==
    (sys = "victim" /\ sel.round = "running")
        ~> (sel.round = "returned" /\ RoundBounded)

\* ------------------------------------------------------------------------
\* Claims on the resize of the deque
\* ------------------------------------------------------------------------
\* The indexes of a deque that hold a job: top <= i < bottom, in size_t
IndexWindow == (0 - MaxPop - 1)..(MaxPush + 1)
Present(dq) == {i \in IndexWindow : ULe(dq.top, i) /\ ULt(i, dq.bottom)}

\* The step of wc_deque_resize that makes the new array the array of the deque
ResizeStep == impl = "wc" /\ own.pc = "resize_swap" /\ own'.pc # "resize_swap"

ParentReplaced(i) ==
    /\ jlog.issued[i].parent # 0 /\ jlog.issued[i].phase # "completed"
    /\ Let(jlog.issued[jlog.issued[i].parent], LAMBDA parent :
           /\ job_pool.jobs[parent.idx].generation # parent.gen
           /\ job_pool.jobs[parent.idx].allocated)

\* C38: while a child is outstanding the slot of its parent still holds the
\* parent, so that the counter the child decrements is its parent's.
ParentOutlivesChildren ==
    jsys = "pool" => \A i \in 1..Len(jlog.issued) : ~ParentReplaced(i)

\* ------------------------------------------------------------------------
\* Claims on the fibers of a worker
\* ------------------------------------------------------------------------
\* How often fiber f is on the free stack, free[0 .. free_top - 1]
OnFree(f) == Cardinality({i \in 0..(fib.free_top - 1) : fib.free[i] = f})

\* Fiber f is bound to a job, and to one no other fiber is bound to
Bound(f) ==
    /\ fib.fibers[f].current_job # 0
    /\ \A g \in Fibers \ {f} :
           fib.fibers[g].current_job # fib.fibers[f].current_job

\* C39: every fiber of the worker is either once on the free stack or bound
\* to one job, free_top is within 0..MAX_FIBERS_PER_WORKER, and the fiber
\* taken for a job that has finished is on the free stack again (or taken
\* for a later job).
FibersAccounted ==
    sys = "fiber" =>
        /\ fib.free_top \in 0..FibersPerWorker
        /\ \A f \in Fibers :
            \/ OnFree(f) = 1 /\ fib.fibers[f].current_job = 0
            \/ OnFree(f) = 0 /\ Bound(f)
        /\ \A job \in fib.done :
            fib.took[job] # NoFiber =>
                \/ OnFree(fib.took[job]) = 1
                \/ fib.fibers[fib.took[job]].current_job \notin {0, job}

====
